---- MODULE Spec2Model ----
(***************************************************************************)
(* Model of the Flappy Bird clone: the scene manager and its main loop     *)
(* (systems/scenemanagement.rs, main.rs), the Title and Game scenes        *)
(* (scenes/title.rs, scenes/game.rs) and the prefabs the Game scene drives *)
(* (bird, pipes, background, ground, scoreboard, button, storage).         *)
(*                                                                         *)
(* Numbers.  The program computes in f32.  The model computes in exact     *)
(* integers on a fixed-point grid: horizontal quantities in 1/20 pixel     *)
(* (so that screen_width / 2.5 and SCROLL_SPEED * 0.25 are whole), and     *)
(* vertical quantities in 1/300 pixel (so that GRAVITY / 30.0 = 91/300 and *)
(* the impulse -6.5 are whole).  f32 rounding of the vertical integration  *)
(* is not modelled.                                                        *)
(*                                                                         *)
(* Not modelled: textures, sounds, fonts and the draw calls themselves     *)
(* (draw is modelled by which scene it draws), and the bird's animation    *)
(* frame and frame timer, which only select the sprite that is drawn.      *)
(* Asset loads and the highscore write are taken to succeed: where one     *)
(* fails the program panics (unwrap, expect) and the process is gone.      *)
(***************************************************************************)
EXTENDS Integers, Sequences, FiniteSets, TLC

\* ------------------------------------------------------------------------
\* Fixed-point units
\* ------------------------------------------------------------------------
XU == 4 * 5      \* horizontal units per pixel
YU == 3 * 100    \* vertical units per pixel

\* ------------------------------------------------------------------------
\* Program constants
\* ------------------------------------------------------------------------
GRAVITY_STEP == 91          \* GRAVITY / 30.0 = 9.1 / 30 pixel, in 1/300 pixel
FLAP_IMPULSE == 1950        \* 6.5 pixel per frame, in 1/300 pixel
SCROLL_SPEED == 3           \* pixel per frame
SPAWN_FRAMES == 80          \* frames between two spawns
GAP_SIZE == 160
PIPE_HEIGHT == 320
PIPE_WIDTH == 54
MIN_GAP_TOP == 100
BIRD_W == 34
BIRD_H == 24
ANCHOR_X == 27              \* pivot correction of the bird sprite (x)
ANCHOR_Y == 12              \* pivot correction of the bird sprite (y)
SCORE_OFFSET == 27
BIRD_MIN_Y == 12
BIRD_BOTTOM_MARGIN == 36
GROUND_HEIGHT == 112

\* ------------------------------------------------------------------------
\* Bounds of the model: the window, the textures and the player's inputs
\* ------------------------------------------------------------------------
ScreenW == 100              \* screen_width() in pixel
ScreenH == 400              \* screen_height() in pixel
GroundTexW == 2             \* width of ground.png in pixel
ForestTexW == 1             \* width of trees.png
CityTexW == 1               \* width of cityscape.png
CloudTexW == 1              \* width of clouds.png
ButtonTexW == 10            \* width of start-button.png
ButtonTexH == 6             \* height of start-button.png
MaxPresses == 5             \* mouse presses the player makes in one run
PressEvery == 16            \* in play the player presses on every n-th frame
MaxStack == 3               \* scene stacks built directly, as the tests do
MaxCalls == 2               \* method calls made on a scene built directly
MaxGenCalls == 170          \* calls of should_spawn_pipe on one generator
MaxStoppedCalls == 2        \* of them, calls made while it is stopped
RectMax == 2                \* largest coordinate and size of a rectangle given
                            \* to check_collision
MaxPos == 3                 \* layer positions given to the scroll functions:
                            \* up to this many steps of 0.75 pixel either way
MaxTexW == 2                \* texture widths given to calculate_positions
MaxTitleCalls == 4          \* method calls made on a Title scene
MaxPool == 3                \* pairs in a collection built directly
MaxFloor == 2               \* floor heights given to PipeGroup::reset: up to
                            \* this many steps of 120 pixel either side of 360
WideTexW == 8               \* width in pixel of the narrowest background texture
                            \* of a background scrolled tick by tick
WideScreenW == 800          \* width in pixel of the default window
MaxWideFrames == 420        \* frames of play run in a window of that width

\* ------------------------------------------------------------------------
\* systems/physics.rs
\* ------------------------------------------------------------------------
Rect(x, y, w, h) == [x |-> x, y |-> y, w |-> w, h |-> h]

\* a check_collision that counts rectangles that only touch
check_collision_touching(rect1, rect2) ==
    /\ rect1.x <= rect2.x + rect2.w
    /\ rect1.x + rect1.w >= rect2.x
    /\ rect1.y <= rect2.y + rect2.h
    /\ rect1.y + rect1.h >= rect2.y

check_collision(rect1, rect2) ==
    /\ rect1.x < rect2.x + rect2.w
    /\ rect1.x + rect1.w > rect2.x
    /\ rect1.y < rect2.y + rect2.h
    /\ rect1.y + rect1.h > rect2.y

\* f32 `%`: the remainder of the truncated division, with the dividend's sign
Fmod(a, b) == IF a >= 0 THEN a % b ELSE 0 - ((0 - a) % b)

Clamp(v, lo, hi) == IF v < lo THEN lo ELSE IF v > hi THEN hi ELSE v

Max(a, b) == IF a >= b THEN a ELSE b

\* ------------------------------------------------------------------------
\* prefabs/bird.rs
\* ------------------------------------------------------------------------
Bird_new ==
    [ x |-> (ScreenW * XU * 2) \div 5,
      y |-> (ScreenH * YU) \div 2,
      vy |-> 0,
      allow_gravity |-> FALSE,
      alive |-> TRUE,
      fixed_x_position |-> (ScreenW * XU * 2) \div 5 ]

Bird_get_collision_rect(b) == Rect(b.x, b.y, BIRD_W * XU, BIRD_H * YU)

Bird_collides_with(b, obj) == check_collision(Bird_get_collision_rect(b), obj)

\* a flap that adds the impulse to the velocity
Bird_flap_accumulates(b) == IF b.alive THEN [b EXCEPT !.vy = b.vy - FLAP_IMPULSE] ELSE b

Bird_flap(b) == IF b.alive THEN [b EXCEPT !.vy = 0 - FLAP_IMPULSE] ELSE b

\* a kill that does nothing to a bird that is already dead
Bird_kill_once(b) == IF b.alive THEN [b EXCEPT !.alive = FALSE, !.vy = 0] ELSE b

Bird_kill(b) == [b EXCEPT !.alive = FALSE, !.vy = 0]

\* a reset that puts the bird at the left edge of the screen
Bird_reset_left_edge(b) ==
    [b EXCEPT !.x = 0,
              !.y = (ScreenH * YU) \div 2,
              !.vy = 0,
              !.alive = TRUE]

\* a reset that leaves the velocity as it is
Bird_reset_keeps_velocity(b) ==
    [b EXCEPT !.x = b.fixed_x_position,
              !.y = (ScreenH * YU) \div 2,
              !.alive = TRUE]

Bird_reset(b) ==
    [b EXCEPT !.x = b.fixed_x_position,
              !.y = (ScreenH * YU) \div 2,
              !.vy = 0,
              !.alive = TRUE]

\* an update that stops the bird where it clamps its position
\* an update that moves the bird whether or not its gravity is on
Bird_update_gravity_always(b) ==
    LET v == b.vy + GRAVITY_STEP
    IN [b EXCEPT !.vy = v,
                 !.y = Clamp(b.y + v, BIRD_MIN_Y * YU,
                             (ScreenH - BIRD_BOTTOM_MARGIN) * YU)]

\* an update that moves a living bird only
Bird_update_alive_only(b) ==
    IF b.allow_gravity /\ b.alive
    THEN LET v == b.vy + GRAVITY_STEP
         IN [b EXCEPT !.vy = v,
                      !.y = Clamp(b.y + v, BIRD_MIN_Y * YU,
                                  (ScreenH - BIRD_BOTTOM_MARGIN) * YU)]
    ELSE b

Bird_update_clamp_stops(b) ==
    IF b.allow_gravity
    THEN LET v == b.vy + GRAVITY_STEP
             y == Clamp(b.y + v, BIRD_MIN_Y * YU, (ScreenH - BIRD_BOTTOM_MARGIN) * YU)
         IN [b EXCEPT !.vy = IF y = b.y + v THEN v ELSE 0, !.y = y]
    ELSE b

Bird_update(b) ==
    IF b.allow_gravity
    THEN LET v == b.vy + GRAVITY_STEP
         IN [b EXCEPT !.vy = v,
                      !.y = Clamp(b.y + v, BIRD_MIN_Y * YU,
                                  (ScreenH - BIRD_BOTTOM_MARGIN) * YU)]
    ELSE b

\* ------------------------------------------------------------------------
\* prefabs/pipes.rs
\* ------------------------------------------------------------------------
PipeGroup_new ==
    [ x |-> 0, y |-> 0, top_y |-> 0, bottom_y |-> 0,
      alive |-> FALSE, enabled |-> FALSE, has_scored |-> FALSE ]

Pipe_get_collision_rect(pipe_y) == Rect(0, pipe_y, PIPE_WIDTH * XU, PIPE_HEIGHT * YU)

Pipe_collides_with(pipe_y, obj) == check_collision(Pipe_get_collision_rect(pipe_y), obj)

\* an update that never deactivates a pair
PipeGroup_update_never_dies(p) ==
    IF p.alive /\ p.enabled
    THEN [p EXCEPT !.x = p.x - SCROLL_SPEED * XU] ELSE p

\* an update that deactivates a pair already at x = -54
PipeGroup_update_at_edge(p) ==
    LET moved == IF p.alive /\ p.enabled
                 THEN [p EXCEPT !.x = p.x - SCROLL_SPEED * XU] ELSE p
    IN IF moved.x <= 0 - PIPE_WIDTH * XU
       THEN [moved EXCEPT !.alive = FALSE, !.enabled = FALSE]
       ELSE moved

PipeGroup_update(p) ==
    LET moved == IF p.alive /\ p.enabled
                 THEN [p EXCEPT !.x = p.x - SCROLL_SPEED * XU] ELSE p
    IN IF moved.x < 0 - PIPE_WIDTH * XU
       THEN [moved EXCEPT !.alive = FALSE, !.enabled = FALSE]
       ELSE moved

\* the values rng.random_range(min_gap_top..max_gap_top) can return, sampled
\* at both ends of the half-open range (in pixel)
GapTops(ground_y) ==
    LET max_gap_top == ground_y - GAP_SIZE - 100
    IN IF max_gap_top > MIN_GAP_TOP
       THEN {MIN_GAP_TOP, max_gap_top - 1}
       ELSE {MIN_GAP_TOP}

\* a reset that leaves has_scored as it is
PipeGroup_reset_keeps_scored(p, x, gap_top) ==
    [p EXCEPT !.x = x,
              !.y = 0,
              !.top_y = (gap_top - PIPE_HEIGHT) * YU,
              !.bottom_y = (gap_top + GAP_SIZE) * YU,
              !.alive = TRUE,
              !.enabled = TRUE]

\* x in horizontal units, gap_top in pixel (one of GapTops(ground_y))
PipeGroup_reset(p, x, gap_top) ==
    [p EXCEPT !.x = x,
              !.y = 0,
              !.top_y = (gap_top - PIPE_HEIGHT) * YU,
              !.bottom_y = (gap_top + GAP_SIZE) * YU,
              !.alive = TRUE,
              !.enabled = TRUE,
              !.has_scored = FALSE]

PipeGroup_collides_with(p, obj) ==
    LET relative_rect == Rect(obj.x - p.x - ANCHOR_X * XU,
                              obj.y - p.y - ANCHOR_Y * YU, obj.w, obj.h)
    IN \/ Pipe_collides_with(p.top_y, relative_rect)
       \/ Pipe_collides_with(p.bottom_y, relative_rect)

PipeGenerator_new == [counter |-> 0, enabled |-> FALSE]

\* a start that also clears the counter
PipeGenerator_start_resets_counter(gen) == [gen EXCEPT !.enabled = TRUE, !.counter = 0]

PipeGenerator_start(gen) == [gen EXCEPT !.enabled = TRUE]

\* a stop that also clears the counter
PipeGenerator_stop_resets_counter(gen) == [gen EXCEPT !.enabled = FALSE, !.counter = 0]

PipeGenerator_stop(gen) == [gen EXCEPT !.enabled = FALSE]

\* a should_spawn_pipe that tests the counter with > in place of >=
PipeGenerator_should_spawn_pipe_late(gen) ==
    IF gen.enabled
    THEN IF gen.counter + 1 > SPAWN_FRAMES
         THEN [gen |-> [gen EXCEPT !.counter = 0], spawn |-> TRUE]
         ELSE [gen |-> [gen EXCEPT !.counter = gen.counter + 1], spawn |-> FALSE]
    ELSE [gen |-> gen, spawn |-> FALSE]

\* the generator after the call, and the call's result
PipeGenerator_should_spawn_pipe(gen) ==
    IF gen.enabled
    THEN IF gen.counter + 1 >= SPAWN_FRAMES
         THEN [gen |-> [gen EXCEPT !.counter = 0], spawn |-> TRUE]
         ELSE [gen |-> [gen EXCEPT !.counter = gen.counter + 1], spawn |-> FALSE]
    ELSE [gen |-> gen, spawn |-> FALSE]

\* ------------------------------------------------------------------------
\* prefabs/ground.rs, prefabs/background.rs
\* ------------------------------------------------------------------------
Ground_new == [scroll_pos |-> 0, scroll |-> TRUE]

Ground_get_collision_rect ==
    Rect(0, (ScreenH - GROUND_HEIGHT) * YU, ScreenW * XU, GROUND_HEIGHT * YU)

Ground_update(gr) ==
    IF gr.scroll
    THEN [gr EXCEPT !.scroll_pos =
             Fmod(gr.scroll_pos - SCROLL_SPEED * XU, GroundTexW * XU)]
    ELSE gr

Background_new == [forest_pos |-> 0, cityscape_pos |-> 0, cloud_pos |-> 0, scroll |-> TRUE]

\* SCROLL_SPEED * 0.75, * 0.5, * 0.25 in horizontal units
Background_update(bg) ==
    IF bg.scroll
    THEN [bg EXCEPT
            !.forest_pos = Fmod(bg.forest_pos - (SCROLL_SPEED * XU * 3) \div 4, ForestTexW * XU),
            !.cityscape_pos = Fmod(bg.cityscape_pos - (SCROLL_SPEED * XU) \div 2, CityTexW * XU),
            !.cloud_pos = Fmod(bg.cloud_pos - (SCROLL_SPEED * XU) \div 4, CloudTexW * XU)]
    ELSE bg

\* a calculate_positions that wraps into 0 .. width, as the mathematical
\* modulo does
Background_calculate_positions_floor_mod(forest_pos, cityscape_pos, cloud_pos, forest_width, cityscape_width, cloud_width, scroll) ==
    IF scroll
    THEN [ forest |-> (forest_pos - (SCROLL_SPEED * XU * 3) \div 4) % forest_width,
           cityscape |-> (cityscape_pos - (SCROLL_SPEED * XU) \div 2) % cityscape_width,
           cloud |-> (cloud_pos - (SCROLL_SPEED * XU) \div 4) % cloud_width ]
    ELSE [forest |-> forest_pos, cityscape |-> cityscape_pos, cloud |-> cloud_pos]

\* a calculate_positions in which the cloud layer is the fastest and the
\* forest layer the slowest
Background_calculate_positions_cloud_fastest(forest_pos, cityscape_pos, cloud_pos, forest_width, cityscape_width, cloud_width, scroll) ==
    IF scroll
    THEN [ forest |-> Fmod(forest_pos - (SCROLL_SPEED * XU) \div 4, forest_width),
           cityscape |-> Fmod(cityscape_pos - (SCROLL_SPEED * XU) \div 2, cityscape_width),
           cloud |-> Fmod(cloud_pos - (SCROLL_SPEED * XU * 3) \div 4, cloud_width) ]
    ELSE [forest |-> forest_pos, cityscape |-> cityscape_pos, cloud |-> cloud_pos]

\* positions and widths in horizontal units; the result is the tuple returned
Background_calculate_positions(forest_pos, cityscape_pos, cloud_pos, forest_width, cityscape_width, cloud_width, scroll) ==
    IF scroll
    THEN [ forest |-> Fmod(forest_pos - (SCROLL_SPEED * XU * 3) \div 4, forest_width),
           cityscape |-> Fmod(cityscape_pos - (SCROLL_SPEED * XU) \div 2, cityscape_width),
           cloud |-> Fmod(cloud_pos - (SCROLL_SPEED * XU) \div 4, cloud_width) ]
    ELSE [forest |-> forest_pos, cityscape |-> cityscape_pos, cloud |-> cloud_pos]

\* ------------------------------------------------------------------------
\* prefabs/button.rs, prefabs/scoreboard.rs
\* ------------------------------------------------------------------------
\* point in half pixels, so that the button's corners are whole
Button_contains(point) ==
    LET left == ScreenW - ButtonTexW
        top == ScreenH - ButtonTexH
    IN /\ point.x >= left
       /\ point.x < left + 2 * ButtonTexW
       /\ point.y >= top
       /\ point.y < top + 2 * ButtonTexH

Scoreboard_new == [score |-> 0, highscore |-> 0]

\* a set_score with its arguments swapped
Scoreboard_set_score_swapped(sb, score, highscore) ==
    [sb EXCEPT !.score = highscore, !.highscore = score]

Scoreboard_set_score(sb, score, highscore) ==
    [sb EXCEPT !.score = score, !.highscore = highscore]

\* ------------------------------------------------------------------------
\* systems/storage.rs: the highscore file is missing, or exists with a
\* sequence of characters as its content
\* ------------------------------------------------------------------------
Digits == <<"0", "1", "2", "3", "4", "5", "6", "7", "8", "9">>

RECURSIVE NatToString(_)
NatToString(n) ==
    IF n < 10 THEN <<Digits[n + 1]>>
    ELSE Append(NatToString(n \div 10), Digits[(n % 10) + 1])

\* i32::to_string
i32_to_string(n) == IF n < 0 THEN <<"-">> \o NatToString(0 - n) ELSE NatToString(n)

DigitValue(c) == CHOOSE d \in 0..9 : Digits[d + 1] = c

IsDigits(str) ==
    /\ Len(str) > 0
    /\ \A i \in 1..Len(str) : \E d \in 1..10 : Digits[d] = str[i]

RECURSIVE DigitsToNat(_)
DigitsToNat(str) ==
    IF Len(str) = 0 THEN 0
    ELSE 10 * DigitsToNat(SubSeq(str, 1, Len(str) - 1)) + DigitValue(str[Len(str)])

\* str::parse::<i32> (an optional sign, then digits)
Parse(str) ==
    IF Len(str) > 1 /\ str[1] \in {"-", "+"} /\ IsDigits(Tail(str))
    THEN [ok |-> TRUE,
          val |-> IF str[1] = "-" THEN 0 - DigitsToNat(Tail(str))
                  ELSE DigitsToNat(Tail(str))]
    ELSE IF IsDigits(str) THEN [ok |-> TRUE, val |-> DigitsToNat(str)]
    ELSE [ok |-> FALSE, val |-> 0]

IsSpace(c) == c \in {" ", "\n"}

RECURSIVE TrimStart(_)
TrimStart(str) ==
    IF Len(str) > 0 /\ IsSpace(str[1]) THEN TrimStart(Tail(str)) ELSE str

RECURSIVE TrimEnd(_)
TrimEnd(str) ==
    IF Len(str) > 0 /\ IsSpace(str[Len(str)])
    THEN TrimEnd(SubSeq(str, 1, Len(str) - 1)) ELSE str

Trim(str) == TrimStart(TrimEnd(str))

\* read(): a missing file is Ok(0), unparsable content is Err
storage_read(f) ==
    IF ~f.exists THEN [ok |-> TRUE, val |-> 0] ELSE Parse(Trim(f.content))

\* write(): the file's content after a successful write
storage_write(high_score) == [exists |-> TRUE, content |-> i32_to_string(high_score)]

\* Result::unwrap_or
unwrap_or(res, default) == IF res.ok THEN res.val ELSE default

\* ------------------------------------------------------------------------
\* scenes/game.rs
\* ------------------------------------------------------------------------
\* f: the highscore file when the scene is constructed
GameScene_new(f) ==
    [ kind |-> "Game",
      background |-> Background_new,
      ground |-> Ground_new,
      bird |-> Bird_new,
      score |-> 0,
      highscore |-> unwrap_or(storage_read(f), 0),
      is_mouse_down |-> TRUE,
      instructions_visible |-> TRUE,
      pipes |-> <<>>,
      game_over |-> FALSE,
      pipe_generator |-> PipeGenerator_new,
      scoreboard |-> Scoreboard_new ]

\* a reset that leaves the score as it is
GameScene_reset_keeps_score(g) ==
    [g EXCEPT !.instructions_visible = TRUE,
              !.pipes = <<>>,
              !.background.scroll = TRUE,
              !.ground.scroll = TRUE,
              !.bird = Bird_reset(g.bird),
              !.game_over = FALSE]

\* a reset that also starts the pipe generator
GameScene_reset_starts_generator(g) ==
    [g EXCEPT !.instructions_visible = TRUE,
              !.pipes = <<>>,
              !.background.scroll = TRUE,
              !.ground.scroll = TRUE,
              !.bird = Bird_reset(g.bird),
              !.score = 0,
              !.game_over = FALSE,
              !.pipe_generator = PipeGenerator_start(g.pipe_generator)]

\* a reset that drops the last pair instead of clearing the collection
GameScene_reset_pops_one(g) ==
    [g EXCEPT !.instructions_visible = TRUE,
              !.pipes = SubSeq(g.pipes, 1, Len(g.pipes) - 1),
              !.background.scroll = TRUE,
              !.ground.scroll = TRUE,
              !.bird = Bird_reset(g.bird),
              !.score = 0,
              !.game_over = FALSE]

GameScene_reset(g) ==
    [g EXCEPT !.instructions_visible = TRUE,
              !.pipes = <<>>,
              !.background.scroll = TRUE,
              !.ground.scroll = TRUE,
              !.bird = Bird_reset(g.bird),
              !.score = 0,
              !.game_over = FALSE]

\* a start_game that does not start the pipe generator
GameScene_start_game_no_generator(g) ==
    [g EXCEPT !.instructions_visible = FALSE,
              !.bird.allow_gravity = TRUE]

GameScene_start_game(g) ==
    [g EXCEPT !.instructions_visible = FALSE,
              !.bird.allow_gravity = TRUE,
              !.pipe_generator = PipeGenerator_start(g.pipe_generator)]

DisablePipes(pipes) == [i \in DOMAIN pipes |-> [pipes[i] EXCEPT !.enabled = FALSE]]

\* The steps of GameScene::update work on s = [g |-> the scene, ev |-> what
\* the frame has done so far]
NoEvents ==
    [ started |-> FALSE, did_reset |-> FALSE, flapped |-> FALSE, scored |-> 0,
      pipe_hit |-> FALSE, ground_hit |-> FALSE, writes |-> <<>>, spawn |-> "none" ]

\* a pipe collision that ends the game at once
PipeCollision_sets_game_over(s) ==
    LET g == s.g
        bird_died ==
            /\ g.bird.alive
            /\ \E i \in DOMAIN g.pipes :
                  PipeGroup_collides_with(g.pipes[i], Bird_get_collision_rect(g.bird))
    IN IF bird_died
       THEN [ g |-> [g EXCEPT !.bird = Bird_kill(g.bird),
                              !.pipe_generator = PipeGenerator_stop(g.pipe_generator),
                              !.background.scroll = FALSE,
                              !.ground.scroll = FALSE,
                              !.game_over = TRUE,
                              !.pipes = DisablePipes(g.pipes)],
              ev |-> [s.ev EXCEPT !.pipe_hit = TRUE] ]
       ELSE s

\* the first half of check_for_collisions: the bird against the pipes
PipeCollision(s) ==
    LET g == s.g
        bird_died ==
            /\ g.bird.alive
            /\ \E i \in DOMAIN g.pipes :
                  PipeGroup_collides_with(g.pipes[i], Bird_get_collision_rect(g.bird))
    IN IF bird_died
       THEN [ g |-> [g EXCEPT !.bird = Bird_kill(g.bird),
                              !.pipe_generator = PipeGenerator_stop(g.pipe_generator),
                              !.background.scroll = FALSE,
                              !.ground.scroll = FALSE,
                              !.pipes = DisablePipes(g.pipes)],
              ev |-> [s.ev EXCEPT !.pipe_hit = TRUE] ]
       ELSE s

\* a ground collision that leaves the bird's gravity on
GroundCollision_keeps_gravity(s) ==
    LET g == s.g
        hit == ~g.game_over /\ Bird_collides_with(g.bird, Ground_get_collision_rect)
        g1 == [g EXCEPT !.bird = Bird_kill(g.bird),
                        !.background.scroll = FALSE,
                        !.ground.scroll = FALSE,
                        !.game_over = TRUE,
                        !.pipe_generator = PipeGenerator_stop(g.pipe_generator)]
        record == g1.score >= g1.highscore
        g2 == IF record THEN [g1 EXCEPT !.highscore = g1.score] ELSE g1
        g3 == [g2 EXCEPT !.scoreboard =
                            Scoreboard_set_score(g2.scoreboard, g2.score, g2.highscore),
                         !.pipes = DisablePipes(g2.pipes)]
    IN IF hit
       THEN [ g |-> g3,
              ev |-> [s.ev EXCEPT !.ground_hit = TRUE,
                                  !.writes = IF record THEN <<g2.highscore>> ELSE <<>>] ]
       ELSE s

\* a ground collision that records the score only above the highscore
GroundCollision_strictly_above(s) ==
    LET g == s.g
        hit == ~g.game_over /\ Bird_collides_with(g.bird, Ground_get_collision_rect)
        g1 == [g EXCEPT !.bird = [Bird_kill(g.bird) EXCEPT !.allow_gravity = FALSE],
                        !.background.scroll = FALSE,
                        !.ground.scroll = FALSE,
                        !.game_over = TRUE,
                        !.pipe_generator = PipeGenerator_stop(g.pipe_generator)]
        record == g1.score > g1.highscore
        g2 == IF record THEN [g1 EXCEPT !.highscore = g1.score] ELSE g1
        g3 == [g2 EXCEPT !.scoreboard =
                            Scoreboard_set_score(g2.scoreboard, g2.score, g2.highscore),
                         !.pipes = DisablePipes(g2.pipes)]
    IN IF hit
       THEN [ g |-> g3,
              ev |-> [s.ev EXCEPT !.ground_hit = TRUE,
                                  !.writes = IF record THEN <<g2.highscore>> ELSE <<>>] ]
       ELSE s

\* the second half of check_for_collisions: the bird against the ground.
\* ev.writes: the values passed to storage::write, in order
GroundCollision(s) ==
    LET g == s.g
        hit == ~g.game_over /\ Bird_collides_with(g.bird, Ground_get_collision_rect)
        g1 == [g EXCEPT !.bird = [Bird_kill(g.bird) EXCEPT !.allow_gravity = FALSE],
                        !.background.scroll = FALSE,
                        !.ground.scroll = FALSE,
                        !.game_over = TRUE,
                        !.pipe_generator = PipeGenerator_stop(g.pipe_generator)]
        record == g1.score >= g1.highscore
        g2 == IF record THEN [g1 EXCEPT !.highscore = g1.score] ELSE g1
        g3 == [g2 EXCEPT !.scoreboard =
                            Scoreboard_set_score(g2.scoreboard, g2.score, g2.highscore),
                         !.pipes = DisablePipes(g2.pipes)]
    IN IF hit
       THEN [ g |-> g3,
              ev |-> [s.ev EXCEPT !.ground_hit = TRUE,
                                  !.writes = IF record THEN <<g2.highscore>> ELSE <<>>] ]
       ELSE s

check_for_collisions(s) == GroundCollision(PipeCollision(s))

\* update, step 1: the bird, with its x held fixed
UpdateBird(g) ==
    IF ~g.instructions_visible
    THEN [g EXCEPT !.bird = [Bird_update(g.bird) EXCEPT !.x = g.bird.x]]
    ELSE g

\* a mouse handler that restarts on a press anywhere on the screen
HandleMouse_reset_anywhere(g, in) ==
    LET fresh == in.down /\ ~g.is_mouse_down
        started == fresh /\ g.instructions_visible
        did_reset == fresh /\ ~g.instructions_visible /\ g.game_over
        g1 == IF started THEN GameScene_start_game(g)
              ELSE IF did_reset THEN GameScene_reset(g)
              ELSE g
        flapped == fresh /\ g1.bird.alive /\ ~g1.game_over
        g2 == IF flapped THEN [g1 EXCEPT !.bird = Bird_flap(g1.bird)] ELSE g1
    IN [ g |-> [g2 EXCEPT !.is_mouse_down = in.down],
         ev |-> [NoEvents EXCEPT !.started = started, !.did_reset = did_reset,
                                 !.flapped = flapped] ]

\* a mouse handler that acts on the button's level, in every frame in
\* which it is down
HandleMouse_on_level(g, in) ==
    LET fresh == in.down
        started == fresh /\ g.instructions_visible
        did_reset == fresh /\ ~g.instructions_visible /\ g.game_over
                        /\ Button_contains(in.point)
        g1 == IF started THEN GameScene_start_game(g)
              ELSE IF did_reset THEN GameScene_reset(g)
              ELSE g
        flapped == fresh /\ g1.bird.alive /\ ~g1.game_over
        g2 == IF flapped THEN [g1 EXCEPT !.bird = Bird_flap(g1.bird)] ELSE g1
    IN [ g |-> [g2 EXCEPT !.is_mouse_down = in.down],
         ev |-> [NoEvents EXCEPT !.started = started, !.did_reset = did_reset,
                                 !.flapped = flapped] ]

\* update, step 2: the mouse.  in.down: is_mouse_button_down(Left);
\* in.point: mouse_position()
HandleMouse(g, in) ==
    LET fresh == in.down /\ ~g.is_mouse_down
        started == fresh /\ g.instructions_visible
        did_reset == fresh /\ ~g.instructions_visible /\ g.game_over
                        /\ Button_contains(in.point)
        g1 == IF started THEN GameScene_start_game(g)
              ELSE IF did_reset THEN GameScene_reset(g)
              ELSE g
        flapped == fresh /\ g1.bird.alive /\ ~g1.game_over
        g2 == IF flapped THEN [g1 EXCEPT !.bird = Bird_flap(g1.bird)] ELSE g1
    IN [ g |-> [g2 EXCEPT !.is_mouse_down = in.down],
         ev |-> [NoEvents EXCEPT !.started = started, !.did_reset = did_reset,
                                 !.flapped = flapped] ]

\* a scoring test with < in place of <=
ScoringPipes_strict(g) ==
    { i \in DOMAIN g.pipes :
        /\ ~g.pipes[i].has_scored
        /\ g.pipes[i].x + SCORE_OFFSET * XU < g.bird.x }

\* the pipes a frame scores: not yet scored and past the bird's column
ScoringPipes(g) ==
    { i \in DOMAIN g.pipes :
        /\ ~g.pipes[i].has_scored
        /\ g.pipes[i].x + SCORE_OFFSET * XU <= g.bird.x }

\* a scoring loop that does not mark the pairs it scores
ScoreAndScroll_no_mark(s) ==
    LET g == s.g
        scoring == ScoringPipes(g)
    IN [ g |-> [g EXCEPT
                  !.pipes = [i \in DOMAIN g.pipes |-> PipeGroup_update(g.pipes[i])],
                  !.score = g.score + Cardinality(scoring),
                  !.background = Background_update(g.background),
                  !.ground = Ground_update(g.ground)],
         ev |-> [s.ev EXCEPT !.scored = Cardinality(scoring)] ]

\* update, step 3a: scoring, then the pipes, the background and the ground
ScoreAndScroll(s) ==
    LET g == s.g
        scoring == ScoringPipes(g)
    IN [ g |-> [g EXCEPT
                  !.pipes = [i \in DOMAIN g.pipes |->
                                PipeGroup_update(IF i \in scoring
                                                 THEN [g.pipes[i] EXCEPT !.has_scored = TRUE]
                                                 ELSE g.pipes[i])],
                  !.score = g.score + Cardinality(scoring),
                  !.background = Background_update(g.background),
                  !.ground = Ground_update(g.ground)],
         ev |-> [s.ev EXCEPT !.scored = Cardinality(scoring)] ]

\* a pool that reuses the last dead pair of the collection, not the first
SpawnPipe_reuses_last(s, gap_top) ==
    LET g == s.g
        r == PipeGenerator_should_spawn_pipe(g.pipe_generator)
        g1 == [g EXCEPT !.pipe_generator = r.gen]
        dead == {i \in DOMAIN g.pipes : ~g.pipes[i].alive}
        last == CHOOSE i \in dead : \A j \in dead : i >= j
    IN IF ~r.spawn THEN [g |-> g1, ev |-> s.ev]
       ELSE IF dead # {}
       THEN [g |-> [g1 EXCEPT !.pipes[last] =
                       PipeGroup_reset(g.pipes[last], ScreenW * XU, gap_top)],
             ev |-> [s.ev EXCEPT !.spawn = "reused"]]
       ELSE [g |-> [g1 EXCEPT !.pipes =
                       Append(g.pipes, PipeGroup_reset(PipeGroup_new, ScreenW * XU, gap_top))],
             ev |-> [s.ev EXCEPT !.spawn = "new"]]

\* the generator and the pool in a window whose screen_width() is spawn_x
\* (in horizontal units)
SpawnPipeAt(s, spawn_x, gap_top) ==
    LET g == s.g
        r == PipeGenerator_should_spawn_pipe(g.pipe_generator)
        g1 == [g EXCEPT !.pipe_generator = r.gen]
        dead == {i \in DOMAIN g.pipes : ~g.pipes[i].alive}
        first == CHOOSE i \in dead : \A j \in dead : i <= j
    IN IF ~r.spawn THEN [g |-> g1, ev |-> s.ev]
       ELSE IF dead # {}
       THEN [g |-> [g1 EXCEPT !.pipes[first] =
                       PipeGroup_reset(g.pipes[first], spawn_x, gap_top)],
             ev |-> [s.ev EXCEPT !.spawn = "reused"]]
       ELSE [g |-> [g1 EXCEPT !.pipes =
                       Append(g.pipes, PipeGroup_reset(PipeGroup_new, spawn_x, gap_top))],
             ev |-> [s.ev EXCEPT !.spawn = "new"]]

\* update, step 3c: the generator and the pool.  gap_top: the random gap
SpawnPipe(s, gap_top) == SpawnPipeAt(s, ScreenW * XU, gap_top)

\* a block that evaluates the spawn before it resolves the collisions
Playing_spawn_first(s, gap_top) ==
    IF s.g.game_over THEN s
    ELSE check_for_collisions(SpawnPipe(ScoreAndScroll(s), gap_top))

\* update, step 3: the block under `if !self.game_over`
Playing(s, gap_top) ==
    IF s.g.game_over THEN s
    ELSE SpawnPipe(check_for_collisions(ScoreAndScroll(s)), gap_top)

\* update, step 4: Escape.  in.esc: is_key_pressed(Escape)
Escape(s, in) ==
    [scene |-> s.g, ev |-> s.ev, tr |-> IF in.esc THEN "Pop" ELSE "None"]

\* an update that honours Escape only in a frame that begins with the game
\* not over
GameScene_update_esc_in_play(g, in, gap_top) ==
    Escape(Playing(HandleMouse(UpdateBird(g), in), gap_top),
           [in EXCEPT !.esc = in.esc /\ ~g.game_over])

\* The result: the scene after the frame, what happened in the frame, and
\* the Transition returned
GameScene_update(g, in, gap_top) ==
    Escape(Playing(HandleMouse(UpdateBird(g), in), gap_top), in)

\* ------------------------------------------------------------------------
\* scenes/title.rs
\* ------------------------------------------------------------------------
TitleScene_new ==
    [ kind |-> "Title", background |-> "None", ground |-> "None",
      loading |-> TRUE, loading_game |-> FALSE ]

\* a load_assets that leaves the loading flag set
TitleScene_load_assets_stays_loading(t) ==
    IF t.loading
    THEN [t EXCEPT !.background = Background_new,
                   !.ground = Ground_new]
    ELSE t

\* a load_assets that loads again on every call
TitleScene_load_assets_every_call(t) ==
    [t EXCEPT !.background = Background_new,
              !.ground = Ground_new,
              !.loading = FALSE]

TitleScene_load_assets(t) ==
    IF t.loading
    THEN [t EXCEPT !.background = Background_new,
                   !.ground = Ground_new,
                   !.loading = FALSE]
    ELSE t

\* f: the highscore file.  some, game: the Option returned
TitleScene_load_game_scene(t, f) ==
    IF t.loading_game
    THEN [ scene |-> [t EXCEPT !.loading_game = FALSE],
           some |-> TRUE, game |-> GameScene_new(f) ]
    ELSE [scene |-> t, some |-> FALSE, game |-> "None"]

TitleScene_update(t, in) ==
    IF t.loading \/ t.loading_game
    THEN [scene |-> t, tr |-> "None"]
    ELSE LET t1 == [t EXCEPT !.background = Background_update(t.background),
                             !.ground = Ground_update(t.ground)]
         IN IF in.down /\ Button_contains(in.point)
            THEN [scene |-> [t1 EXCEPT !.loading_game = TRUE], tr |-> "None"]
            ELSE IF in.esc
            THEN [scene |-> t1, tr |-> "Pop"]
            ELSE [scene |-> t1, tr |-> "None"]

\* ------------------------------------------------------------------------
\* systems/scenemanagement.rs: the test module's MockScene, with a flag
\* that records that update was called
\* ------------------------------------------------------------------------
MockScene_new(transition) ==
    [ kind |-> "Mock", transition |-> transition,
      update_called |-> FALSE, draw_called |-> FALSE ]

MockScene_update(m) ==
    [ scene |-> [m EXCEPT !.transition = "None", !.update_called = TRUE],
      tr |-> m.transition ]

MockScene_draw(m) == [m EXCEPT !.draw_called = TRUE]

\* ------------------------------------------------------------------------
\* scenes/mod.rs: the Scene trait's dynamic dispatch
\* ------------------------------------------------------------------------
Scene_update(s, in, gap_top) ==
    CASE s.kind = "Game" -> GameScene_update(s, in, gap_top)
      [] s.kind = "Title" ->
            LET r == TitleScene_update(s, in)
            IN [scene |-> r.scene, tr |-> r.tr, ev |-> NoEvents]
      [] OTHER ->
            LET r == MockScene_update(s)
            IN [scene |-> r.scene, tr |-> r.tr, ev |-> NoEvents]

Scene_draw(s) == IF s.kind = "Mock" THEN MockScene_draw(s) ELSE s

\* ------------------------------------------------------------------------
\* systems/scenemanagement.rs
\* ------------------------------------------------------------------------
SceneManager_new == <<TitleScene_new>>

Pop(stack) == SubSeq(stack, 1, Len(stack) - 1)

ReplaceTop(stack, s) == [stack EXCEPT ![Len(stack)] = s]

\* a pre_update that pushes the Game scene without popping the Title scene
SceneManager_pre_update_push_on_top(stack, f) ==
    IF stack = <<>> \/ stack[Len(stack)].kind # "Title"
    THEN stack
    ELSE LET a == TitleScene_load_assets(stack[Len(stack)])
             b == TitleScene_load_game_scene(a, f)
         IN IF ~a.loading_game THEN ReplaceTop(stack, a)
            ELSE IF ~b.some THEN ReplaceTop(stack, b.scene)
            ELSE Append(ReplaceTop(stack, b.scene), b.game)

SceneManager_pre_update(stack, f) ==
    IF stack = <<>> \/ stack[Len(stack)].kind # "Title"
    THEN stack
    ELSE LET a == TitleScene_load_assets(stack[Len(stack)])
             b == TitleScene_load_game_scene(a, f)
         IN IF ~a.loading_game THEN ReplaceTop(stack, a)
            ELSE IF ~b.some THEN ReplaceTop(stack, b.scene)
            ELSE Append(Pop(stack), b.game)

\* a Pop that puts a new Title scene in the place of the scene it removes
ApplyTransition_back_to_title(stack, r) ==
    [ scenes |-> IF r.tr = "Pop" THEN ReplaceTop(stack, TitleScene_new)
                 ELSE ReplaceTop(stack, r.scene),
      ev |-> r.ev, tr |-> r.tr ]

\* r: what the top scene's update gave back; the scene is updated in place
\* and popped on Transition::Pop
ApplyTransition(stack, r) ==
    [ scenes |-> IF r.tr = "Pop" THEN Pop(stack) ELSE ReplaceTop(stack, r.scene),
      ev |-> r.ev, tr |-> r.tr ]

\* an update that ignores the Transition it gets back
SceneManager_update_ignores_pop(stack, in, gap_top) ==
    IF stack = <<>>
    THEN [scenes |-> stack, ev |-> NoEvents, tr |-> "none"]
    ELSE LET r == Scene_update(stack[Len(stack)], in, gap_top)
         IN [scenes |-> ReplaceTop(stack, r.scene), ev |-> r.ev, tr |-> r.tr]

\* tr: the Transition the top scene returned, "none" on an empty stack
SceneManager_update(stack, in, gap_top) ==
    IF stack = <<>>
    THEN [scenes |-> stack, ev |-> NoEvents, tr |-> "none"]
    ELSE ApplyTransition(stack, Scene_update(stack[Len(stack)], in, gap_top))

\* a draw that draws the bottom scene instead of the top one
SceneManager_draw_first(stack) ==
    IF stack # <<>>
    THEN [ scenes |-> [stack EXCEPT ![1] = Scene_draw(stack[1])],
           exit |-> FALSE, drawn |-> 1 ]
    ELSE [scenes |-> stack, exit |-> TRUE, drawn |-> 0]

\* drawn: the position in the stack of the scene that was drawn, 0 if none
SceneManager_draw(stack) ==
    IF stack # <<>>
    THEN [ scenes |-> ReplaceTop(stack, Scene_draw(stack[Len(stack)])),
           exit |-> FALSE, drawn |-> Len(stack) ]
    ELSE [scenes |-> stack, exit |-> TRUE, drawn |-> 0]

\* ------------------------------------------------------------------------
\* main.rs: the main loop
\* ------------------------------------------------------------------------
VARIABLES
    scenes,     \* SceneManager.scenes, the top scene last
    pc,         \* the call the main loop makes next
    status,     \* "running", or "exited" after process::exit(0)
    file,       \* the highscore file
    inp,        \* the input of the last frame
    ev,         \* what the last update did
    ret,        \* the Transition the last update got back ("none": from no scene)
    drawn,      \* the position of the scene the last draw drew
    presses     \* mouse presses made so far

vars == <<scenes, pc, status, file, inp, ev, ret, drawn, presses>>

\* the mouse positions the player uses, in half pixels: the centre of the
\* start button and the first point right of it
Points == { [x |-> ScreenW, y |-> ScreenH],
            [x |-> ScreenW + ButtonTexW, y |-> ScreenH] }

Inputs == [down : BOOLEAN, point : Points, esc : BOOLEAN]

\* the highscore files the program may find at start
Files == { [exists |-> FALSE, content |-> <<>>],
           [exists |-> TRUE, content |-> <<"1", "\n">>] }

Top == scenes[Len(scenes)]

InPlay ==
    /\ scenes # <<>>
    /\ Top.kind = "Game"
    /\ ~Top.instructions_visible
    /\ Top.bird.alive
    /\ ~Top.game_over

\* the frames in which the code uses the pointer's position
PointerMatters ==
    /\ scenes # <<>>
    /\ \/ Top.kind = "Title"
       \/ Top.kind = "Game" /\ Top.game_over

\* the player: at most MaxPresses presses, in play only on every
\* PressEvery-th frame of the generator's count, and the pointer is moved
\* only on the title and game-over screens
PlayerCan(in) ==
    /\ (in.down /\ ~inp.down) =>
          /\ presses < MaxPresses
          /\ InPlay => Top.pipe_generator.counter % PressEvery = 0
    /\ ~PointerMatters => in.point = inp.point

Init ==
    /\ scenes = SceneManager_new
    /\ pc = "pre_update"
    /\ status = "running"
    /\ file \in Files
    /\ inp = [down |-> FALSE, point |-> [x |-> ScreenW, y |-> ScreenH], esc |-> FALSE]
    /\ ev = NoEvents
    /\ ret = "none"
    /\ drawn = 0
    /\ presses = 0

PreUpdate ==
    /\ status = "running"
    /\ pc = "pre_update"
    /\ scenes' = SceneManager_pre_update(scenes, file)
    /\ pc' = "update"
    /\ UNCHANGED <<status, file, inp, ev, ret, drawn, presses>>

Update ==
    /\ status = "running"
    /\ pc = "update"
    /\ \E in \in Inputs, gap_top \in GapTops(ScreenH - GROUND_HEIGHT) :
          /\ PlayerCan(in)
          /\ \E r \in {SceneManager_update(scenes, in, gap_top)} :
                /\ scenes' = r.scenes
                /\ ev' = r.ev
                /\ ret' = r.tr
                /\ file' = IF r.ev.writes # <<>>
                           THEN storage_write(r.ev.writes[Len(r.ev.writes)])
                           ELSE file
          /\ inp' = in
          /\ presses' = IF in.down /\ ~inp.down THEN presses + 1 ELSE presses
    /\ pc' = "draw"
    /\ UNCHANGED <<status, drawn>>

Draw ==
    /\ status = "running"
    /\ pc = "draw"
    /\ LET r == SceneManager_draw(scenes)
       IN /\ scenes' = r.scenes
          /\ status' = IF r.exit THEN "exited" ELSE "running"
          /\ drawn' = r.drawn
    /\ pc' = "pre_update"
    /\ UNCHANGED <<file, inp, ev, ret, presses>>

Next == PreUpdate \/ Update \/ Draw

Spec == Init /\ [][Next]_vars

\* main's `loop { ... next_frame().await }` makes its next call for as long
\* as the process runs.  Every step of Next moves pc to the next call, Next
\* has a step in every state that is running, and Spec lets pc change by no
\* other step: the steps of LoopStep that change pc are those of Next.
LoopStep ==
    /\ status = "running"
    /\ pc' \in {"pre_update", "update", "draw"}
    /\ pc' # pc

SpecLive == Spec /\ WF_pc(LoopStep)

\* The manager on a stack built directly, as the tests of scenemanagement.rs
\* build it: any stack of at most MaxStack mock scenes
MockStacks ==
    UNION { [1..n -> {MockScene_new("None"), MockScene_new("Pop")}] : n \in 0..MaxStack }

InitMgr ==
    /\ scenes \in MockStacks
    /\ pc = "pre_update"
    /\ status = "running"
    /\ file = [exists |-> FALSE, content |-> <<>>]
    /\ inp = [down |-> FALSE, point |-> [x |-> ScreenW, y |-> ScreenH], esc |-> FALSE]
    /\ ev = NoEvents
    /\ ret = "none"
    /\ drawn = 0
    /\ presses = 0

SpecMgr == InitMgr /\ [][Next]_vars

\* ------------------------------------------------------------------------
\* The Game scene and its bird driven method by method, as the test modules
\* of game.rs and bird.rs drive them: a scene is built with its fields set
\* directly, then methods are called on it.  scenes holds the one scene,
\* ev the last call (the method, the scene before it, and the method called
\* before that), presses the number of calls made.
\* ------------------------------------------------------------------------
UnitBirds ==
    { [Bird_new EXCEPT !.y = y, !.vy = vy, !.alive = a, !.allow_gravity = ag] :
        y \in {BIRD_MIN_Y * YU, (ScreenH * YU) \div 2},
        vy \in {0 - FLAP_IMPULSE, 0, GRAVITY_STEP},
        a \in BOOLEAN, ag \in BOOLEAN }

UnitPipes ==
    LET p == PipeGroup_reset(PipeGroup_new, ScreenW * XU, MIN_GAP_TOP)
    IN { <<>>, <<p>>, <<[p EXCEPT !.has_scored = TRUE, !.enabled = FALSE], p>> }

UnitScenes ==
    { [GameScene_new([exists |-> FALSE, content |-> <<>>]) EXCEPT
          !.bird = b, !.pipes = p, !.score = Len(p),
          !.game_over = go, !.instructions_visible = iv,
          !.background.scroll = sc, !.ground.scroll = sc] :
        b \in UnitBirds, p \in UnitPipes,
        go \in BOOLEAN, iv \in BOOLEAN, sc \in BOOLEAN }

InitUnit ==
    /\ scenes \in {<<g>> : g \in UnitScenes}
    /\ pc = "unit"
    /\ status = "running"
    /\ file = [exists |-> FALSE, content |-> <<>>]
    /\ inp = [down |-> FALSE, point |-> [x |-> ScreenW, y |-> ScreenH], esc |-> FALSE]
    /\ ev = [op |-> "new", before |-> scenes[1], prev |-> "new"]
    /\ ret = "none"
    /\ drawn = 0
    /\ presses = 0

\* one method call on the scene: g is the scene after it
Call(op, g) ==
    /\ presses < MaxCalls
    /\ scenes' = <<g>>
    /\ ev' = [op |-> op, before |-> Top, prev |-> ev.op]
    /\ presses' = presses + 1
    /\ UNCHANGED <<pc, status, file, inp, ret, drawn>>

CallReset ==
    /\ pc = "unit"
    /\ Call("reset", GameScene_reset(Top))

CallStartGame ==
    /\ pc = "unit"
    /\ Call("start_game", GameScene_start_game(Top))

CallFlap ==
    /\ pc = "unit"
    /\ Call("flap", [Top EXCEPT !.bird = Bird_flap(Top.bird)])

CallKill ==
    /\ pc = "unit"
    /\ Call("kill", [Top EXCEPT !.bird = Bird_kill(Top.bird)])

CallBirdUpdate ==
    /\ pc = "unit"
    /\ Call("update", [Top EXCEPT !.bird = Bird_update(Top.bird)])

NextUnit == CallReset \/ CallStartGame \/ CallFlap \/ CallKill \/ CallBirdUpdate

SpecUnit == InitUnit /\ [][NextUnit]_vars

\* ------------------------------------------------------------------------
\* The PipeGenerator driven method by method, as the tests of pipes.rs
\* drive it.  scenes holds the one generator, ret the last call and its
\* result, ev the results of the calls of should_spawn_pipe made while the
\* generator was enabled, drawn the number of calls made while it was
\* stopped, presses the number of calls of should_spawn_pipe.
\* ------------------------------------------------------------------------
InitGen ==
    /\ scenes = <<PipeGenerator_new>>
    /\ pc = "gen"
    /\ status = "running"
    /\ file = [exists |-> FALSE, content |-> <<>>]
    /\ inp = [down |-> FALSE, point |-> [x |-> ScreenW, y |-> ScreenH], esc |-> FALSE]
    /\ ev = <<>>
    /\ ret = [op |-> "new", result |-> FALSE]
    /\ drawn = 0
    /\ presses = 0

GenStart ==
    /\ pc = "gen"
    /\ scenes' = <<PipeGenerator_start(Top)>>
    /\ ret' = [op |-> "start", result |-> FALSE]
    /\ UNCHANGED <<pc, status, file, inp, ev, drawn, presses>>

GenStop ==
    /\ pc = "gen"
    /\ scenes' = <<PipeGenerator_stop(Top)>>
    /\ ret' = [op |-> "stop", result |-> FALSE]
    /\ UNCHANGED <<pc, status, file, inp, ev, drawn, presses>>

GenShouldSpawn ==
    /\ pc = "gen"
    /\ presses < MaxGenCalls
    /\ ~Top.enabled => drawn < MaxStoppedCalls
    /\ \E r \in {PipeGenerator_should_spawn_pipe(Top)} :
          /\ scenes' = <<r.gen>>
          /\ ret' = [op |-> "should_spawn_pipe", result |-> r.spawn]
          /\ ev' = IF Top.enabled THEN Append(ev, r.spawn) ELSE ev
    /\ drawn' = IF Top.enabled THEN drawn ELSE drawn + 1
    /\ presses' = presses + 1
    /\ UNCHANGED <<pc, status, file, inp>>

NextGen == GenStart \/ GenStop \/ GenShouldSpawn

SpecGen == InitGen /\ [][NextGen]_vars

\* ------------------------------------------------------------------------
\* The main loop on a Game scene built directly, as the test modules of
\* game.rs build theirs: a game in play, the generator one call short of a
\* spawn, with a collection of up to MaxPool pairs, each either alive to the
\* right of the bird, alive at the bird's column, alive one frame short of
\* x = -54, or dead off the left edge, and with the bird at its starting
\* height or level with the top of the lower pipes.  The player makes no
\* press.
\* ------------------------------------------------------------------------
PoolPipes ==
    LET live == PipeGroup_reset(PipeGroup_new, (ScreenW - 3 * SCROLL_SPEED) * XU,
                                MIN_GAP_TOP)
        hitting == PipeGroup_reset(PipeGroup_new, Bird_new.x, MIN_GAP_TOP)
        leaving == [ PipeGroup_reset(PipeGroup_new,
                                     (SCROLL_SPEED - PIPE_WIDTH) * XU, MIN_GAP_TOP)
                       EXCEPT !.has_scored = TRUE ]
        dead == [ PipeGroup_update(PipeGroup_reset(PipeGroup_new,
                                                   0 - (PIPE_WIDTH + 1) * XU, MIN_GAP_TOP))
                    EXCEPT !.has_scored = TRUE ]
    IN UNION { [1..n -> {live, hitting, leaving, dead}] : n \in 0..MaxPool }

InitPool ==
    /\ scenes \in
          { <<[ GameScene_start_game(GameScene_new([exists |-> FALSE, content |-> <<>>]))
                  EXCEPT !.pipes = ps,
                         !.bird.y = y,
                         !.score = Cardinality({i \in DOMAIN ps : ps[i].has_scored}),
                         !.is_mouse_down = FALSE,
                         !.pipe_generator.counter = SPAWN_FRAMES - 1 ]>> :
            ps \in PoolPipes, y \in {Bird_new.y, (MIN_GAP_TOP + GAP_SIZE) * YU} }
    /\ pc = "pre_update"
    /\ status = "running"
    /\ file = [exists |-> FALSE, content |-> <<>>]
    /\ inp = [down |-> FALSE, point |-> [x |-> ScreenW, y |-> ScreenH], esc |-> FALSE]
    /\ ev = NoEvents
    /\ ret = "none"
    /\ drawn = 0
    /\ presses = MaxPresses

SpecPool == InitPool /\ [][Next]_vars

\* ------------------------------------------------------------------------
\* The Title scene driven method by method from TitleScene::new, as the
\* test module of title.rs drives its stand-in.  scenes holds the scene, ev
\* the last call (the method, the scene before it, the method called before
\* that), ret what the call returned, presses the number of calls made.
\* ------------------------------------------------------------------------
InitTitle ==
    /\ scenes = <<TitleScene_new>>
    /\ pc = "title"
    /\ status = "running"
    /\ file \in Files
    /\ inp = [down |-> FALSE, point |-> [x |-> ScreenW, y |-> ScreenH], esc |-> FALSE]
    /\ ev = [op |-> "new", before |-> TitleScene_new, prev |-> "new"]
    /\ ret = [some |-> FALSE, kind |-> "None", tr |-> "None"]
    /\ drawn = 0
    /\ presses = 0

\* one method call on the scene: t is the scene after it, r what it returned
TitleCall(op, t, r) ==
    /\ presses < MaxTitleCalls
    /\ scenes' = <<t>>
    /\ ev' = [op |-> op, before |-> Top, prev |-> ev.op]
    /\ ret' = r
    /\ presses' = presses + 1
    /\ UNCHANGED <<pc, status, file, inp, drawn>>

TitleLoadAssets ==
    /\ pc = "title"
    /\ TitleCall("load_assets", TitleScene_load_assets(Top),
                 [some |-> FALSE, kind |-> "None", tr |-> "None"])

TitleLoadGameScene ==
    /\ pc = "title"
    /\ \E r \in {TitleScene_load_game_scene(Top, file)} :
          TitleCall("load_game_scene", r.scene,
                    [ some |-> r.some,
                      kind |-> IF r.some THEN r.game.kind ELSE "None",
                      tr |-> "None" ])

TitleUpdate ==
    /\ pc = "title"
    /\ \E in \in Inputs :
          \E r \in {TitleScene_update(Top, in)} :
             TitleCall("update", r.scene,
                       [some |-> FALSE, kind |-> "None", tr |-> r.tr])

NextTitle == TitleLoadAssets \/ TitleLoadGameScene \/ TitleUpdate

SpecTitle == InitTitle /\ [][NextTitle]_vars

\* ------------------------------------------------------------------------
\* Functions called on their own, as the test modules of physics.rs,
\* background.rs and pipes.rs call them: inp holds the function and its
\* arguments, ret what the call returned, presses the number of calls made.
\* ------------------------------------------------------------------------
Rects ==
    { Rect(x, y, w, h) : x \in (0 - 1)..RectMax, y \in (0 - 1)..RectMax,
                         w \in 1..RectMax, h \in 1..RectMax }

CollisionInputs == [fn : {"check_collision"}, a : Rects, b : Rects]

\* layer positions, in steps of 0.75 pixel around 0, and texture widths
LayerPositions == { 15 * k : k \in (0 - MaxPos)..MaxPos }

LayerWidths == { XU * k : k \in 1..MaxTexW }

ScrollInputs ==
    [ fn : {"calculate_positions"},
      forest_pos : LayerPositions, cityscape_pos : LayerPositions,
      cloud_pos : LayerPositions,
      forest_width : LayerWidths, cityscape_width : LayerWidths,
      cloud_width : LayerWidths,
      scroll : BOOLEAN ]

GroundInputs == [fn : {"Ground::update"}, scroll_pos : LayerPositions, scroll : BOOLEAN]

\* ground_y values either side of 360, below which the range of the gap is
\* empty; 600 is the value the test of reset uses
FloorYs == { 360 + 120 * k : k \in (0 - MaxFloor)..MaxFloor }

\* a new pair, and a pair that has been on screen, has scored and has left
UsedPairs ==
    { PipeGroup_new,
      [ PipeGroup_update(PipeGroup_reset(PipeGroup_new,
                                         0 - (PIPE_WIDTH + 1) * XU, MIN_GAP_TOP + 1))
          EXCEPT !.has_scored = TRUE ] }

ResetInputs ==
    [ fn : {"PipeGroup::reset"}, p : UsedPairs,
      x : {0, ScreenW * XU}, ground_y : FloorYs ]

FnInputs == CollisionInputs \cup ScrollInputs \cup GroundInputs \cup ResetInputs

InitFn ==
    /\ scenes = <<>>
    /\ pc = "fn"
    /\ status = "running"
    /\ file = [exists |-> FALSE, content |-> <<>>]
    /\ inp \in FnInputs
    /\ ev = NoEvents
    /\ ret = [fn |-> "none"]
    /\ drawn = 0
    /\ presses = 0

\* check_collision(a, b) and, as the claim of symmetry needs it,
\* check_collision(b, a)
FnCheckCollision ==
    /\ pc = "fn"
    /\ inp.fn = "check_collision"
    /\ presses = 0
    /\ ret' = [ fn |-> "check_collision",
                result |-> check_collision(inp.a, inp.b),
                swapped |-> check_collision(inp.b, inp.a) ]
    /\ presses' = 1
    /\ UNCHANGED <<scenes, pc, status, file, inp, ev, drawn>>

FnCalculatePositions ==
    /\ pc = "fn"
    /\ inp.fn = "calculate_positions"
    /\ presses = 0
    /\ \E r \in {Background_calculate_positions(
                     inp.forest_pos, inp.cityscape_pos, inp.cloud_pos,
                     inp.forest_width, inp.cityscape_width, inp.cloud_width,
                     inp.scroll)} :
          ret' = [ fn |-> "calculate_positions", forest |-> r.forest,
                   cityscape |-> r.cityscape, cloud |-> r.cloud ]
    /\ presses' = 1
    /\ UNCHANGED <<scenes, pc, status, file, inp, ev, drawn>>

\* Ground::update on a ground with the given position and flag
FnGroundUpdate ==
    /\ pc = "fn"
    /\ inp.fn = "Ground::update"
    /\ presses = 0
    /\ ret' = [ fn |-> "Ground::update",
                ground |-> Ground_update([ scroll_pos |-> inp.scroll_pos,
                                           scroll |-> inp.scroll ]) ]
    /\ presses' = 1
    /\ UNCHANGED <<scenes, pc, status, file, inp, ev, drawn>>

\* PipeGroup::reset(x, ground_y), with the gap the random generator gives
FnPipeReset ==
    /\ pc = "fn"
    /\ inp.fn = "PipeGroup::reset"
    /\ presses = 0
    /\ \E gap_top \in GapTops(inp.ground_y) :
          ret' = [ fn |-> "PipeGroup::reset",
                   pair |-> PipeGroup_reset(inp.p, inp.x, gap_top) ]
    /\ presses' = 1
    /\ UNCHANGED <<scenes, pc, status, file, inp, ev, drawn>>

NextFn == FnCheckCollision \/ FnCalculatePositions \/ FnGroundUpdate \/ FnPipeReset

SpecFn == InitFn /\ [][NextFn]_vars

\* ------------------------------------------------------------------------
\* A Background updated tick by tick from Background::new, with textures
\* wider than a tick's movement, its scroll flag set and cleared as the Game
\* scene does.  scenes holds the background and its textures' widths, ev the
\* positions before the last update and whether that update scrolled.
\* ------------------------------------------------------------------------
WideWidths == { XU * k : k \in WideTexW..(WideTexW + 1) }

InitLayers ==
    /\ scenes \in { <<[ bg |-> Background_new, forest_width |-> fw,
                         cityscape_width |-> cw, cloud_width |-> clw ]>> :
                     fw \in WideWidths, cw \in WideWidths, clw \in WideWidths }
    /\ pc = "layers"
    /\ status = "running"
    /\ file = [exists |-> FALSE, content |-> <<>>]
    /\ inp = [down |-> FALSE, point |-> [x |-> ScreenW, y |-> ScreenH], esc |-> FALSE]
    /\ ev = [before |-> Background_new, scrolled |-> FALSE]
    /\ ret = "none"
    /\ drawn = 0
    /\ presses = 0

\* Background::update, with the widths of this background's textures
LayersUpdate ==
    /\ pc = "layers"
    /\ \E r \in {Background_calculate_positions(
                     Top.bg.forest_pos, Top.bg.cityscape_pos, Top.bg.cloud_pos,
                     Top.forest_width, Top.cityscape_width, Top.cloud_width,
                     Top.bg.scroll)} :
          scenes' = <<[Top EXCEPT !.bg.forest_pos = r.forest,
                                  !.bg.cityscape_pos = r.cityscape,
                                  !.bg.cloud_pos = r.cloud]>>
    /\ ev' = [before |-> Top.bg, scrolled |-> Top.bg.scroll]
    /\ UNCHANGED <<pc, status, file, inp, ret, drawn, presses>>

\* the Game scene clears the flag when the bird dies and sets it on reset
LayersSetScroll ==
    /\ pc = "layers"
    /\ scenes' = <<[Top EXCEPT !.bg.scroll = ~Top.bg.scroll]>>
    /\ UNCHANGED <<pc, status, file, inp, ev, ret, drawn, presses>>

NextLayers == LayersUpdate \/ LayersSetScroll

SpecLayers == InitLayers /\ [][NextLayers]_vars

\* ------------------------------------------------------------------------
\* The pairs and the generator of a game in play in a window WideScreenW
\* wide, frame by frame, for as long as the player keeps the bird clear of
\* pairs and ground: the block under `if !self.game_over` with the bird
\* held at its starting height in its column at 2/5 of the width.  The
\* generator starts from any count a session before may have left.
\* drawn: the frames run so far.
\* ------------------------------------------------------------------------
InitWide ==
    /\ scenes \in
          { <<[ GameScene_start_game(GameScene_new([exists |-> FALSE, content |-> <<>>]))
                  EXCEPT !.bird.x = (WideScreenW * XU * 2) \div 5,
                         !.bird.fixed_x_position = (WideScreenW * XU * 2) \div 5,
                         !.is_mouse_down = FALSE,
                         !.pipe_generator.counter = c ]>> :
            c \in 0..(SPAWN_FRAMES - 1) }
    /\ pc = "wide"
    /\ status = "running"
    /\ file = [exists |-> FALSE, content |-> <<>>]
    /\ inp = [down |-> FALSE, point |-> [x |-> ScreenW, y |-> ScreenH], esc |-> FALSE]
    /\ ev = NoEvents
    /\ ret = "None"
    /\ drawn = 0
    /\ presses = 0

WideFrame ==
    /\ pc = "wide"
    /\ drawn < MaxWideFrames
    /\ ~Top.game_over
    /\ \E gap_top \in GapTops(ScreenH - GROUND_HEIGHT) :
          \E r \in { SpawnPipeAt(check_for_collisions(
                                     ScoreAndScroll([g |-> Top, ev |-> NoEvents])),
                                 WideScreenW * XU, gap_top) } :
             /\ scenes' = <<r.g>>
             /\ ev' = r.ev
    /\ drawn' = drawn + 1
    /\ UNCHANGED <<pc, status, file, inp, ret, presses>>

NextWide == WideFrame

SpecWide == InitWide /\ [][NextWide]_vars

\* ------------------------------------------------------------------------
\* Properties
\* ------------------------------------------------------------------------
GameOnTop == scenes # <<>> /\ Top.kind = "Game"

\* an update of the Game scene after which the scene is still on the stack
GameFrame == pc = "update" /\ GameOnTop /\ scenes' # <<>> /\ Top'.kind = "Game"

\* C1: SceneManager::update updates the top scene only.  On Pop the stack
\* loses exactly its top and the scenes below are left as they were (not
\* updated); on None the stack keeps its scenes, the top one updated, the
\* others as they were; on an empty stack nothing happens.
C1_UpdateTopOnly ==
    [][ pc = "update" =>
          IF scenes = <<>>
          THEN scenes' = <<>> /\ ret' = "none" /\ ev' = NoEvents
          ELSE /\ ret' \in {"None", "Pop"}
               /\ ret' = Top.transition
               /\ ret' = "Pop" => scenes' = Pop(scenes)
               /\ ret' = "None" =>
                     /\ Len(scenes') = Len(scenes)
                     /\ \A i \in 1..(Len(scenes) - 1) : scenes'[i] = scenes[i]
                     /\ Top'.update_called ]_vars

C1_Witness ==
    /\ pc = "draw"
    /\ ret = "Pop"
    /\ Len(scenes) = 2
    /\ \A i \in 1..2 : ~scenes[i].update_called

\* C2: when pre_update finds a Title scene with loading_game on top, the
\* Game scene takes the Title scene's place: after it the stack is as long
\* as before, the Game scene is on top and no Title scene is left; and no
\* state holds a Title and a Game scene at once.
C2_AtomicReplace ==
    /\ [][ (pc = "pre_update" /\ scenes # <<>> /\ Top.kind = "Title"
              /\ Top.loading_game) =>
             /\ Len(scenes') = Len(scenes)
             /\ Top'.kind = "Game"
             /\ \A i \in 1..Len(scenes') : scenes'[i].kind # "Title" ]_vars
    /\ [](~\E i, j \in 1..Len(scenes) :
              scenes[i].kind = "Title" /\ scenes[j].kind = "Game")

C2_Witness ==
    /\ pc = "update"
    /\ drawn = 1
    /\ inp.down
    /\ scenes = <<GameScene_new(file)>>

\* C3: the process exits only in draw and only on an empty stack; on a
\* non-empty stack draw draws the top scene and no other, and the process
\* keeps running.
C3_ExitOnlyInDraw ==
    [][ /\ (status = "running" /\ status' = "exited") => (pc = "draw" /\ scenes = <<>>)
        /\ (pc = "draw" /\ scenes = <<>>) => status' = "exited"
        /\ (pc = "draw" /\ scenes # <<>>) =>
              /\ status' = "running"
              /\ drawn' = Len(scenes)
              /\ Len(scenes') = Len(scenes)
              /\ Top'.draw_called
              /\ \A i \in 1..(Len(scenes) - 1) : scenes'[i] = scenes[i] ]_vars

C3_Witness ==
    /\ pc = "pre_update"
    /\ status = "running"
    /\ Len(scenes) = 2
    /\ drawn = 2
    /\ scenes[2].draw_called
    /\ ~scenes[1].draw_called

\* the Game scene of a frame just before collision resolution: after the
\* bird's update, the mouse handling, the scoring and the scrolling
BeforeCollisions(g, in) == ScoreAndScroll(HandleMouse(UpdateBird(g), in)).g

\* C4: in a frame in which Escape is pressed while the Game scene is on
\* top, whatever the scene's state, update returns Pop and the manager pops
\* the scene, which leaves the stack empty, and that frame's draw, the next
\* step of the main loop, ends the process.
C4_EscapeExits ==
    [][ /\ (pc = "update" /\ GameOnTop /\ inp'.esc) =>
              /\ ret' = "Pop"
              /\ scenes' = <<>>
              /\ pc' = "draw"
              /\ status' = "running"
        /\ (pc = "draw" /\ inp.esc /\ ret = "Pop") =>
              /\ scenes = <<>>
              /\ status' = "exited" ]_vars

\* an Escape frame of a started game with the bird dead and the game not
\* over, ended by exit
C4_Witness ==
    /\ status = "exited"
    /\ inp.esc
    /\ ret = "Pop"
    /\ ev.pipe_hit
    /\ ~ev.ground_hit

\* C5: while the game is over the bird is dead and its gravity is off, the
\* generator is stopped, background and ground do not scroll, and no pair
\* is enabled.
C5_GameOverFlags ==
    (GameOnTop /\ Top.game_over) =>
        /\ ~Top.bird.alive
        /\ ~Top.bird.allow_gravity
        /\ ~Top.pipe_generator.enabled
        /\ ~Top.background.scroll
        /\ ~Top.ground.scroll
        /\ \A i \in DOMAIN Top.pipes : ~Top.pipes[i].enabled

\* game over, reached without a pipe collision, with a live pair in the
\* collection
C5_Witness ==
    /\ GameOnTop
    /\ Top.game_over
    /\ ev.ground_hit
    /\ ~ev.pipe_hit
    /\ \E i \in DOMAIN Top.pipes : Top.pipes[i].alive

\* C6: in a frame in which the living bird overlaps a pair and not the
\* ground when collisions are resolved, the frame leaves the bird dead with
\* zero velocity, the generator stopped, both layers not scrolling and every
\* pair disabled, while game_over stays false and the bird's gravity on.
C6_PipeHit ==
    [][ GameFrame =>
          LET c == BeforeCollisions(Top, inp')
          IN (/\ ~c.game_over
              /\ c.bird.alive
              /\ \E i \in DOMAIN c.pipes :
                    PipeGroup_collides_with(c.pipes[i], Bird_get_collision_rect(c.bird))
              /\ ~Bird_collides_with(c.bird, Ground_get_collision_rect))
             => /\ ~Top'.bird.alive
                /\ Top'.bird.vy = 0
                /\ Top'.bird.y = c.bird.y
                /\ ~Top'.pipe_generator.enabled
                /\ ~Top'.background.scroll
                /\ ~Top'.ground.scroll
                /\ \A i \in DOMAIN Top'.pipes : ~Top'.pipes[i].enabled
                /\ ~Top'.game_over
                /\ c.bird.allow_gravity
                /\ Top'.bird.allow_gravity ]_vars

C6_Witness ==
    /\ GameOnTop
    /\ ev.pipe_hit
    /\ ~ev.ground_hit
    /\ ~Top.bird.alive
    /\ Top.bird.allow_gravity
    /\ ~Top.game_over
    /\ Len(Top.pipes) >= 1

\* C7: a frame calls the highscore write once if it is the frame in which
\* game_over turns true and the score is then at least the stored
\* highscore, and not at all otherwise; the value written is that score and
\* it is what the file then holds.  So a frame that writes starts with the
\* game not over and ends with it over, and game_over goes back to false
\* only in a frame that does a full reset: at most one write between two
\* resets.
C7_WriteOncePerDeath ==
    [][ (pc = "update" /\ GameOnTop) =>
          LET c == BeforeCollisions(Top, inp')
              turns == /\ ~c.game_over
                       /\ Bird_collides_with(c.bird, Ground_get_collision_rect)
          IN /\ ev'.writes = IF turns /\ c.score >= c.highscore
                             THEN <<c.score>> ELSE <<>>
             /\ ev'.writes # <<>> =>
                   /\ ~Top.game_over
                   /\ file'.exists
                   /\ Parse(file'.content) = [ok |-> TRUE, val |-> c.score]
             /\ ev'.writes = <<>> => file' = file
             /\ GameFrame =>
                   /\ (~Top.game_over /\ Top'.game_over) <=> turns
                   /\ (Top.game_over /\ ~Top'.game_over) => ev'.did_reset ]_vars

\* a frame that wrote a highscore of 1
C7_Witness ==
    /\ GameOnTop
    /\ Top.game_over
    /\ ev.ground_hit
    /\ ev.writes = <<1>>
    /\ file.content = <<"1">>

\* C8: the highscore in memory never decreases and changes only in the
\* frame in which game_over turns true, in which it becomes the larger of
\* itself and the score; and while the game is over the highscore is at
\* least the score and the scoreboard holds that score and that highscore.
C8_Highscore ==
    /\ [][ GameFrame =>
             /\ Top'.highscore >= Top.highscore
             /\ Top'.highscore # Top.highscore => (~Top.game_over /\ Top'.game_over)
             /\ (~Top.game_over /\ Top'.game_over) =>
                   Top'.highscore = Max(Top.highscore, Top'.score) ]_vars
    /\ []((GameOnTop /\ Top.game_over) =>
             /\ Top.highscore >= Top.score
             /\ Top.scoreboard = [score |-> Top.score, highscore |-> Top.highscore])

\* game over with a score below the highscore read from the file
C8_Witness ==
    /\ GameOnTop
    /\ Top.game_over
    /\ Top.score = 0
    /\ Top.highscore = 1
    /\ Top.scoreboard = [score |-> 0, highscore |-> 1]
    /\ file.content = <<"1", "\n">>

\* C9: in a frame that begins with the game not over, a pair that has not
\* scored is scored in the frame exactly if, at its position before the
\* frame moves it, pair.x + 27 <= bird.x.
C9_ScoreCondition ==
    [][ (GameFrame /\ ~Top.game_over) =>
          \A i \in DOMAIN Top.pipes :
             ~Top.pipes[i].has_scored =>
                /\ i \in DOMAIN Top'.pipes
                /\ Top'.pipes[i].has_scored
                      <=> (Top.pipes[i].x + 27 * XU <= Top.bird.x) ]_vars

\* a pair scored in the frame in which its x + 27 was exactly the bird's x
C9_Witness ==
    /\ GameOnTop
    /\ ev.scored = 1
    /\ Top.bird.alive
    /\ \E i \in DOMAIN Top.pipes :
          /\ Top.pipes[i].has_scored
          /\ Top.pipes[i].x + SCROLL_SPEED * XU + 27 * XU = Top.bird.x

\* C10: in a frame without a full reset the score rises by the number of
\* pairs whose has_scored goes from false to true, so it never decreases and
\* rises by 1 per such pair; a full reset sets it to 0; and a pair's
\* has_scored goes from true to false only where the pool resets that pair.
C10_ScoreCounts ==
    [][ GameFrame =>
          IF ev'.did_reset
          THEN Top'.score = 0 /\ Top'.pipes = <<>>
          ELSE /\ DOMAIN Top.pipes \subseteq DOMAIN Top'.pipes
               /\ Top'.score = Top.score + Cardinality(
                     { i \in DOMAIN Top.pipes :
                          ~Top.pipes[i].has_scored /\ Top'.pipes[i].has_scored })
               /\ \A i \in DOMAIN Top'.pipes \ DOMAIN Top.pipes :
                     ~Top'.pipes[i].has_scored
               /\ \A i \in DOMAIN Top.pipes :
                     (Top.pipes[i].has_scored /\ ~Top'.pipes[i].has_scored) =>
                        /\ ev'.spawn = "reused"
                        /\ ~PipeGroup_update(Top.pipes[i]).alive
                        /\ Top'.pipes[i].alive
                        /\ Top'.pipes[i].x = ScreenW * XU ]_vars

\* a scored pair has been reset by the pool and the score is kept
C10_Witness ==
    /\ GameOnTop
    /\ ev.spawn = "reused"
    /\ Top.score = 1
    /\ Len(Top.pipes) = 1
    /\ ~Top.pipes[1].has_scored
    /\ Top.pipes[1].x = ScreenW * XU

\* C11: GameScene::reset, called on a scene in any state, leaves the
\* collection of pairs empty, the score 0, game_over false, the instructions
\* visible, background and ground scrolling, and the bird alive at its fixed
\* column and mid-screen with zero velocity.
C11_ResetState ==
    (pc = "unit" /\ ev.op = "reset") =>
        /\ Top.pipes = <<>>
        /\ Top.score = 0
        /\ ~Top.game_over
        /\ Top.instructions_visible
        /\ Top.background.scroll
        /\ Top.ground.scroll
        /\ Top.bird.alive
        /\ Top.bird.x = Top.bird.fixed_x_position
        /\ Top.bird.x = (ScreenW * XU * 2) \div 5
        /\ Top.bird.y = (ScreenH * YU) \div 2
        /\ Top.bird.vy = 0

\* a reset of a scene that was over, with two pairs, a score, a dead bird
\* off mid-screen and moving, and nothing scrolling
C11_Witness ==
    /\ pc = "unit"
    /\ ev.op = "reset"
    /\ ev.before.game_over
    /\ ~ev.before.instructions_visible
    /\ Len(ev.before.pipes) = 2
    /\ ev.before.score = 2
    /\ ~ev.before.bird.alive
    /\ ev.before.bird.vy = GRAVITY_STEP
    /\ ev.before.bird.y = BIRD_MIN_Y * YU
    /\ ~ev.before.background.scroll
    /\ Top.pipes = <<>>

\* C12: a frame of the Game scene does a full reset exactly if the mouse
\* is down in it and was up the frame before, the game is over when the
\* frame begins and the pointer is inside the restart button; the reset
\* empties the collection and zeroes the score.  In every other frame the
\* collection does not shrink, the score does not drop, and a game that is
\* over stays over.
C12_ResetOnlyOnButton ==
    [][ GameFrame =>
          LET restart == /\ inp'.down
                         /\ ~inp.down
                         /\ Top.game_over
                         /\ Button_contains(inp'.point)
          IN /\ ev'.did_reset <=> restart
             /\ restart =>
                   /\ Top'.pipes = <<>>
                   /\ Top'.score = 0
                   /\ ~Top'.game_over
                   /\ Top'.instructions_visible
             /\ ~restart =>
                   /\ Len(Top'.pipes) >= Len(Top.pipes)
                   /\ Top'.score >= Top.score
                   /\ Top.game_over => Top'.game_over
                   /\ Top'.instructions_visible => Top.instructions_visible ]_vars

\* the frame of a press on the restart button that reset a game that had
\* been over
C12_Witness ==
    /\ pc = "draw"
    /\ GameOnTop
    /\ ev.did_reset
    /\ inp.down
    /\ Button_contains(inp.point)
    /\ Top.pipes = <<>>
    /\ Top.instructions_visible
    /\ ~Top.game_over

\* C13: a second call of GameScene::reset right after a first one leaves
\* the scene exactly as the first call left it.
C13_ResetIdempotent ==
    (pc = "unit" /\ ev.op = "reset" /\ ev.prev = "reset") => Top = ev.before

\* two resets in a row, on a scene that had been started
C13_Witness ==
    /\ pc = "unit"
    /\ presses = 2
    /\ ev.op = "reset"
    /\ ev.prev = "reset"
    /\ Top = GameScene_reset(Top)
    /\ Top.bird.allow_gravity
    /\ Top.pipe_generator = PipeGenerator_new

\* C14: in a frame that begins with the game over, a mouse click does not
\* flap the bird, wherever the pointer is: flap is not called and the
\* bird's velocity is not the impulse of -6.5 after the frame.
C14_NoFlapWhenOver ==
    [][ (GameFrame /\ Top.game_over) =>
          /\ ~ev'.flapped
          /\ Top'.bird.vy # 0 - (13 * YU) \div 2 ]_vars

\* C15: a frame of the Game scene that begins with the instructions
\* visible, with the mouse down in it and up the frame before, starts play:
\* after it the instructions are hidden, the bird's gravity is on, the pipe
\* generator is enabled, and the bird's velocity is the impulse of -6.5.
C15_StartOnPress ==
    [][ (GameFrame /\ Top.instructions_visible /\ inp'.down /\ ~inp.down) =>
          /\ ev'.started
          /\ ~Top'.instructions_visible
          /\ Top'.bird.allow_gravity
          /\ Top'.pipe_generator.enabled
          /\ Top'.bird.alive
          /\ Top'.bird.vy = 0 - (13 * YU) \div 2 ]_vars

\* the frame of the press that started play, from the instructions screen
\* of a freshly constructed scene
C15_Witness ==
    /\ pc = "draw"
    /\ GameOnTop
    /\ ev.started
    /\ ev.flapped
    /\ inp.down
    /\ presses = 2
    /\ ~Top.instructions_visible
    /\ Top.pipe_generator = [counter |-> 1, enabled |-> TRUE]
    /\ Top.bird.vy = 0 - FLAP_IMPULSE

\* C16: of the calls of should_spawn_pipe made on a new generator while it
\* is enabled, the first 79 return false and the 80th returns true, the
\* counter is 0 right after the 80th, and any 80 consecutive ones contain
\* exactly one that returns true.
C16_GeneratorCadence ==
    pc = "gen" =>
        /\ \A i \in 1..Len(ev) : i <= 80 => (ev[i] <=> i = 80)
        /\ Len(ev) = 80 => Top.counter = 0
        /\ \A i \in 1..(Len(ev) - 79) :
               Cardinality({j \in i..(i + 79) : ev[j]}) = 1

\* 160 calls on a generator that was never called while stopped, the 80th
\* and the 160th of which returned true
C16_Witness ==
    /\ pc = "gen"
    /\ drawn = 0
    /\ Len(ev) = 160
    /\ ev[80]
    /\ ev[160]
    /\ ret = [op |-> "should_spawn_pipe", result |-> TRUE]
    /\ Top.counter = 0

\* C17: start and stop change the enabled flag of the generator and
\* nothing else, so never the counter; a call of should_spawn_pipe on a
\* stopped generator returns false and leaves the generator as it was.
C17_StartStop ==
    [][ pc = "gen" =>
          /\ ret'.op = "start" => Top' = [Top EXCEPT !.enabled = TRUE]
          /\ ret'.op = "stop" => Top' = [Top EXCEPT !.enabled = FALSE]
          /\ (ret'.op = "should_spawn_pipe" /\ presses' # presses /\ ~Top.enabled) =>
                /\ ~ret'.result
                /\ Top' = Top
                /\ ev' = ev ]_vars

\* a call on a generator stopped with 5 on its counter, which is still 5
C17_Witness ==
    /\ pc = "gen"
    /\ ret = [op |-> "should_spawn_pipe", result |-> FALSE]
    /\ drawn >= 1
    /\ Len(ev) = 5
    /\ Top = [counter |-> 5, enabled |-> FALSE]

\* C18: Bird::flap on a living bird sets the vertical velocity to -6.5,
\* whatever it was, and changes nothing else; on a dead bird it changes
\* nothing.
C18_Flap ==
    (pc = "unit" /\ ev.op = "flap") =>
        IF ev.before.bird.alive
        THEN Top = [ev.before EXCEPT !.bird.vy = 0 - (13 * YU) \div 2]
        ELSE Top = ev.before

\* a flap of a living bird that was falling
C18_Witness ==
    /\ pc = "unit"
    /\ ev.op = "flap"
    /\ ev.before.bird.alive
    /\ ev.before.bird.vy = 2 * GRAVITY_STEP
    /\ Top.bird.vy = 0 - FLAP_IMPULSE

\* C19: Bird::kill leaves the bird dead with zero velocity and its position
\* and gravity flag as they were, also when the bird is already dead and
\* has gathered velocity under gravity since.
C19_Kill ==
    (pc = "unit" /\ ev.op = "kill") =>
        /\ ~Top.bird.alive
        /\ Top.bird.vy = 0
        /\ Top = [ev.before EXCEPT !.bird.alive = FALSE, !.bird.vy = 0]

\* a kill of a dead bird that gravity had moved since an update
C19_Witness ==
    /\ pc = "unit"
    /\ ev.op = "kill"
    /\ ev.prev = "update"
    /\ ~ev.before.bird.alive
    /\ ev.before.bird.allow_gravity
    /\ ev.before.bird.vy = GRAVITY_STEP
    /\ Top.bird.vy = 0
    /\ Top.bird.y = ev.before.bird.y

\* C20: whenever the Game scene is on the stack, the bird's x is its fixed
\* spawn column, screen_width / 2.5: no frame changes it, whatever the
\* frame does (update, flap, kill, collision, reset).
C20_BirdColumn ==
    GameOnTop =>
        /\ Top.bird.x = Top.bird.fixed_x_position
        /\ Top.bird.x = (ScreenW * XU * 2) \div 5

\* the bird in its column after a game that was played, lost and restarted
C20_Witness ==
    /\ GameOnTop
    /\ ev.did_reset
    /\ Top.bird.alive
    /\ Top.pipe_generator.counter > 0
    /\ Top.bird.x = Top.bird.fixed_x_position

\* C21: check_collision(a, b) is true exactly if a.x < b.x + b.w and
\* a.x + a.w > b.x and a.y < b.y + b.h and a.y + a.h > b.y; so it is false
\* for two rectangles of which one ends where the other begins, and
\* check_collision(b, a) gives the same.
C21_CheckCollision ==
    (pc = "fn" /\ ret.fn = "check_collision") =>
        LET a == inp.a
            b == inp.b
        IN /\ ret.result <=> (/\ a.x < b.x + b.w
                              /\ a.x + a.w > b.x
                              /\ a.y < b.y + b.h
                              /\ a.y + a.h > b.y)
           /\ (\/ a.x + a.w = b.x
               \/ b.x + b.w = a.x
               \/ a.y + a.h = b.y
               \/ b.y + b.h = a.y) => ~ret.result
           /\ ret.swapped = ret.result

\* two rectangles side by side that share an edge and nothing else, found
\* not to collide, in either order
C21_Witness ==
    /\ pc = "fn"
    /\ ret.fn = "check_collision"
    /\ inp.a = Rect(0, 0, 1, 1)
    /\ inp.b = Rect(1, 0, 1, 1)
    /\ ~ret.result
    /\ ~ret.swapped

\* r is a wrapped onto width w by the float remainder: a less a whole
\* number of widths, smaller than one width, and not of the opposite sign
IsRemainder(r, a, w) ==
    /\ (a - r) % w = 0
    /\ r < w
    /\ 0 - r < w
    /\ a >= 0 => r >= 0
    /\ a <= 0 => r <= 0

\* C22: one update of a scrolling layer at position p with speed s and
\* width w leaves it at (p - s) mod w, the float remainder (of the sign of
\* p - s), when its scroll flag is set, and at p when it is not: the
\* background layers with 0.75, 0.5 and 0.25 of SCROLL_SPEED, the ground
\* with SCROLL_SPEED.
C22_LayerAdvance ==
    /\ (pc = "fn" /\ ret.fn = "calculate_positions") =>
          IF inp.scroll
          THEN /\ IsRemainder(ret.forest,
                              inp.forest_pos - (3 * SCROLL_SPEED * XU) \div 4,
                              inp.forest_width)
               /\ IsRemainder(ret.cityscape,
                              inp.cityscape_pos - (2 * SCROLL_SPEED * XU) \div 4,
                              inp.cityscape_width)
               /\ IsRemainder(ret.cloud,
                              inp.cloud_pos - (SCROLL_SPEED * XU) \div 4,
                              inp.cloud_width)
          ELSE /\ ret.forest = inp.forest_pos
               /\ ret.cityscape = inp.cityscape_pos
               /\ ret.cloud = inp.cloud_pos
    /\ (pc = "fn" /\ ret.fn = "Ground::update") =>
          /\ ret.ground.scroll = inp.scroll
          /\ IF inp.scroll
             THEN IsRemainder(ret.ground.scroll_pos,
                              inp.scroll_pos - SCROLL_SPEED * XU, GroundTexW * XU)
             ELSE ret.ground.scroll_pos = inp.scroll_pos

\* a forest layer at -0.75 pixel on a texture 2 pixel wide, moved to -3
\* pixel and wrapped to -1 pixel
C22_Witness ==
    /\ pc = "fn"
    /\ ret.fn = "calculate_positions"
    /\ inp.scroll
    /\ inp.forest_pos = 0 - 15
    /\ inp.forest_width = 2 * XU
    /\ ret.forest = 0 - XU

Abs(n) == IF n < 0 THEN 0 - n ELSE n

\* C23, as stated: in every update with scrolling enabled, from every set
\* of positions reachable from Background::new, the changes of position
\* satisfy |delta forest| > |delta cityscape| > |delta cloud|.
C23_ParallaxOrder ==
    (pc = "layers" /\ ev.scrolled) =>
        /\ Abs(Top.bg.forest_pos - ev.before.forest_pos)
              > Abs(Top.bg.cityscape_pos - ev.before.cityscape_pos)
        /\ Abs(Top.bg.cityscape_pos - ev.before.cityscape_pos)
              > Abs(Top.bg.cloud_pos - ev.before.cloud_pos)

\* C23, amended: in an update with scrolling enabled each layer's position
\* changes by minus its speed (0.75, 0.5, 0.25 of SCROLL_SPEED), or by its
\* texture's width minus its speed in the update in which it wraps; so
\* |delta forest| > |delta cityscape| > |delta cloud| in every update in
\* which no layer wraps.
C23_ParallaxOrderUnwrapped ==
    (pc = "layers" /\ ev.scrolled) =>
        LET df == Top.bg.forest_pos - ev.before.forest_pos
            dc == Top.bg.cityscape_pos - ev.before.cityscape_pos
            dcl == Top.bg.cloud_pos - ev.before.cloud_pos
            sf == (3 * SCROLL_SPEED * XU) \div 4
            sc == (2 * SCROLL_SPEED * XU) \div 4
            scl == (SCROLL_SPEED * XU) \div 4
        IN /\ df \in {0 - sf, Top.forest_width - sf}
           /\ dc \in {0 - sc, Top.cityscape_width - sc}
           /\ dcl \in {0 - scl, Top.cloud_width - scl}
           /\ (df < 0 /\ dc < 0 /\ dcl < 0) =>
                 /\ Abs(df) > Abs(dc)
                 /\ Abs(dc) > Abs(dcl)

\* an update in mid-cycle in which no layer wrapped: each moved left by its
\* own speed
C23_Witness ==
    /\ pc = "layers"
    /\ ev.scrolled
    /\ ev.before.forest_pos < 0
    /\ Top.bg.forest_pos = ev.before.forest_pos - 45
    /\ Top.bg.cityscape_pos = ev.before.cityscape_pos - 30
    /\ Top.bg.cloud_pos = ev.before.cloud_pos - 15

\* C24: after PipeGroup::reset(x, floor_y) the pair is alive, enabled, not
\* scored and at (x, 0); its gap top g is at least 100 and at most
\* floor_y - 260, and is 100 where floor_y - 260 <= 100; the top pipe is at
\* y = g - 320 and the bottom pipe at y = g + 160, so the bottom pipe begins
\* 160 below the end of the top pipe.
C24_PipeReset ==
    (pc = "fn" /\ ret.fn = "PipeGroup::reset") =>
        LET q == ret.pair
            floor_y == inp.ground_y
        IN /\ q.alive
           /\ q.enabled
           /\ ~q.has_scored
           /\ q.x = inp.x
           /\ q.y = 0
           /\ \E g \in 100..Max(100, floor_y - 260) :
                 /\ floor_y - 260 <= 100 => g = 100
                 /\ q.top_y = (g - 320) * YU
                 /\ q.bottom_y = (g + 160) * YU
           /\ q.bottom_y - (q.top_y + 320 * YU) = 160 * YU

\* a reset of a pair that had scored and left the screen, with a floor at
\* 480 and the gap at the low end of its range
C24_Witness ==
    /\ pc = "fn"
    /\ ret.fn = "PipeGroup::reset"
    /\ inp.p.has_scored
    /\ ~inp.p.alive
    /\ inp.ground_y = 480
    /\ inp.x = ScreenW * XU
    /\ ret.pair.top_y = (219 - 320) * YU
    /\ ret.pair.bottom_y = (219 + 160) * YU
    /\ ret.pair.alive

\* C25: after PipeGroup::reset(x, floor_y), for every x and floor_y, the top
\* pipe's y is strictly negative and the bottom pipe's y strictly positive.
C25_TopAboveBottomBelow ==
    (pc = "fn" /\ ret.fn = "PipeGroup::reset") =>
        /\ ret.pair.top_y < 0
        /\ ret.pair.bottom_y > 0

\* C26: in a frame in which the generator signals a spawn, if a pair of
\* the collection is not alive when the spawn is evaluated, the first such
\* pair in the collection's order is reset, every other pair is left as it
\* was and the collection keeps its length; if none is, one new pair is
\* appended.  Either way exactly one more pair is alive after the spawn.
\* In a frame without a spawn signal the collection is not touched by the
\* pool, and its length never decreases in a frame without a full reset.
C26_PoolPolicy ==
    [][ GameFrame =>
          LET b == BeforeCollisions(Top, inp')
              c == check_for_collisions([g |-> b, ev |-> NoEvents]).g
              signalled == /\ ~b.game_over
                           /\ c.pipe_generator.enabled
                           /\ c.pipe_generator.counter + 1 >= 80
              dead == {i \in DOMAIN c.pipes : ~c.pipes[i].alive}
              Alive(ps) == Cardinality({i \in DOMAIN ps : ps[i].alive})
              Fresh(q) == /\ q.alive
                          /\ q.enabled
                          /\ ~q.has_scored
                          /\ q.x = ScreenW * XU
          IN /\ ~ev'.did_reset => Len(Top'.pipes) >= Len(Top.pipes)
             /\ (signalled /\ dead # {}) =>
                   /\ Len(Top'.pipes) = Len(c.pipes)
                   /\ \E i \in dead :
                         /\ \A j \in dead : i <= j
                         /\ Fresh(Top'.pipes[i])
                         /\ \A j \in DOMAIN c.pipes \ {i} : Top'.pipes[j] = c.pipes[j]
                   /\ Alive(Top'.pipes) = Alive(c.pipes) + 1
             /\ (signalled /\ dead = {}) =>
                   /\ Len(Top'.pipes) = Len(c.pipes) + 1
                   /\ SubSeq(Top'.pipes, 1, Len(c.pipes)) = c.pipes
                   /\ Fresh(Top'.pipes[Len(Top'.pipes)])
                   /\ Alive(Top'.pipes) = Alive(c.pipes) + 1
             /\ (~signalled /\ ~b.game_over) => Top'.pipes = c.pipes ]_vars

\* a spawn that reset the first pair of three, of which the third was dead
\* as well and is left dead
C26_Witness ==
    /\ pc = "draw"
    /\ GameOnTop
    /\ ev.spawn = "reused"
    /\ Len(Top.pipes) = 3
    /\ Top.pipes[1].alive
    /\ Top.pipes[1].x = ScreenW * XU
    /\ Top.pipes[2].alive
    /\ ~Top.pipes[3].alive

\* C27: a Title scene is constructed with loading true and loading_game
\* false.  load_assets leaves loading false and loading_game as it was, and
\* called on a scene whose loading is already false it changes nothing; no
\* other method changes loading.  load_game_scene returns a scene exactly
\* if loading_game is true, and then leaves loading_game false; where it
\* returns none it changes nothing.
C27_TitleFlags ==
    pc = "title" =>
        /\ ev.op = "new" => (Top.loading /\ ~Top.loading_game)
        /\ ev.op = "load_assets" =>
              /\ ~Top.loading
              /\ Top.loading_game = ev.before.loading_game
              /\ ~ev.before.loading => Top = ev.before
        /\ ev.op # "load_assets" => Top.loading = ev.before.loading
        /\ ev.op = "load_game_scene" =>
              /\ ret.some <=> ev.before.loading_game
              /\ ret.some => (ret.kind = "Game" /\ ~Top.loading_game)
              /\ ~ret.some => Top = ev.before

\* a second load_assets, on a scene whose background has scrolled since the
\* first, which leaves the scene as it was
C27_Witness ==
    /\ pc = "title"
    /\ ev.op = "load_assets"
    /\ ev.prev = "update"
    /\ ~ev.before.loading
    /\ ev.before.background.forest_pos # 0
    /\ Top = ev.before

\* C28: a frame of the Game scene starts, restarts or flaps only if the
\* mouse button is down in it and was up in the frame before, which is what
\* the scene has recorded; so while a button is held, no frame after the
\* one of the press does any of the three.  A new Game scene has down
\* recorded, so the press held since the title screen does nothing: the
\* first start comes only after a release.
C28_EdgeOnly ==
    /\ [][ GameFrame =>
             /\ (ev'.started \/ ev'.did_reset \/ ev'.flapped) =>
                    (inp'.down /\ ~inp.down /\ ~Top.is_mouse_down)
             /\ (inp'.down /\ inp.down) =>
                    /\ Top'.instructions_visible = Top.instructions_visible
                    /\ Top'.pipe_generator.enabled => Top.pipe_generator.enabled
                    /\ Top'.bird.alive => Top.bird.alive
                    /\ Top'.bird.vy # Top.bird.vy =>
                          Top'.bird.vy \in {0, Top.bird.vy + GRAVITY_STEP}
             /\ Top'.is_mouse_down = inp'.down ]_vars
    /\ [](GameOnTop => Top.is_mouse_down = inp.down)
    /\ []((GameOnTop /\ presses = 1 /\ inp.down) =>
              (Top.instructions_visible /\ Top.bird.vy = 0 /\ Top.pipes = <<>>))

\* the press that launched the game, still held some frames into the Game
\* scene: the instructions are still shown
C28_Witness ==
    /\ GameOnTop
    /\ pc = "draw"
    /\ presses = 1
    /\ inp.down
    /\ Top.is_mouse_down
    /\ Top.instructions_visible
    /\ Top.background.forest_pos # 0
    /\ ev = NoEvents

\* C29: a frame of the Game scene past the instructions screen, with the
\* bird's gravity on, adds GRAVITY / 30 to the velocity and moves the bird by
\* the new velocity, held within 12 and screen_height - 36; the velocity is
\* the sum also where the position was held (it changes otherwise only by a
\* flap, a kill or a reset in the same frame).  With gravity off, or on the
\* instructions screen, position and velocity are not integrated.  And the
\* bird's y is within 12 and screen_height - 36 in every state.
C29_BirdUpdate ==
    /\ [][ GameFrame =>
             LET b == Top.bird
                 moved == ~Top.instructions_visible /\ b.allow_gravity
                 vy1 == IF moved THEN b.vy + 91 ELSE b.vy
                 lo == 12 * YU
                 hi == (ScreenH - 36) * YU
                 y1 == IF ~moved THEN b.y
                       ELSE IF b.y + vy1 < lo THEN lo
                       ELSE IF b.y + vy1 > hi THEN hi
                       ELSE b.y + vy1
             IN /\ Top'.bird.y = IF ev'.did_reset THEN (ScreenH * YU) \div 2 ELSE y1
                /\ Top'.bird.vy =
                      IF ev'.pipe_hit \/ ev'.ground_hit THEN 0
                      ELSE IF ev'.flapped THEN 0 - (13 * YU) \div 2
                      ELSE IF ev'.did_reset THEN 0
                      ELSE vy1 ]_vars
    /\ [](GameOnTop =>
             /\ Top.bird.y >= 12 * YU
             /\ Top.bird.y <= (ScreenH - 36) * YU)

\* a frame that held the rising bird at y = 12 and left it its velocity,
\* the sum of more than one frame's gravity since the flap
C29_Witness ==
    /\ GameOnTop
    /\ pc = "draw"
    /\ Top.bird.alive
    /\ Top.bird.allow_gravity
    /\ ~ev.flapped
    /\ Top.bird.y = BIRD_MIN_Y * YU
    /\ Top.bird.vy < 0 - GRAVITY_STEP
    /\ Top.bird.vy > 2 * GRAVITY_STEP - FLAP_IMPULSE

\* C30: in a frame that begins with the game not over, every pair of the
\* collection is still in it after the frame, and, unless the pool has
\* reset it in the same frame, its x is 3 less than before if it was alive
\* and enabled and the same as before if it was not; if that x is below -54
\* the pair is then neither alive nor enabled, and if it is -54 or more the
\* pair is alive as before and enabled as before (or disabled by a
\* collision of the same frame).  In a frame that begins with the game over
\* and does no reset the collection is left as it was.
C30_PipeUpdate ==
    [][ /\ (GameFrame /\ ~Top.game_over) =>
              \A i \in DOMAIN Top.pipes :
                 LET p == Top.pipes[i]
                     x1 == IF p.alive /\ p.enabled THEN p.x - 3 * XU ELSE p.x
                 IN /\ i \in DOMAIN Top'.pipes
                    /\ \/ /\ ev'.spawn = "reused"
                          /\ ~p.alive \/ x1 < 0 - 54 * XU
                          /\ Top'.pipes[i].alive
                          /\ Top'.pipes[i].x = ScreenW * XU
                       \/ /\ Top'.pipes[i].x = x1
                          /\ x1 < 0 - 54 * XU =>
                                (~Top'.pipes[i].alive /\ ~Top'.pipes[i].enabled)
                          /\ x1 >= 0 - 54 * XU =>
                                /\ Top'.pipes[i].alive = p.alive
                                /\ \/ Top'.pipes[i].enabled = p.enabled
                                   \/ /\ ev'.pipe_hit \/ ev'.ground_hit
                                      /\ ~Top'.pipes[i].enabled
        /\ (GameFrame /\ Top.game_over /\ ~ev'.did_reset) =>
              Top'.pipes = Top.pipes ]_vars

\* a pair moved to exactly x = -54 and still alive and enabled, beside a
\* dead pair that is still in the collection
C30_Witness ==
    /\ GameOnTop
    /\ pc = "draw"
    /\ \E i \in DOMAIN Top.pipes :
          /\ Top.pipes[i].x = 0 - PIPE_WIDTH * XU
          /\ Top.pipes[i].alive
          /\ Top.pipes[i].enabled
    /\ \E j \in DOMAIN Top.pipes :
          /\ Top.pipes[j].x < 0 - PIPE_WIDTH * XU
          /\ ~Top.pipes[j].alive

\* C31: a frame of the Game scene resolves its collisions on the bird and
\* the pairs as the frame's bird update, input handling, scoring and pair
\* advancement have left them, and evaluates the spawn after that: a frame
\* that detects a pipe or ground collision spawns no pair and reactivates
\* none; a frame that spawns leaves the new or reused pair at the right
\* edge, unmoved and out of that frame's collision test, and the frame
\* after it is the first to move the pair.
C31_FrameOrder ==
    [][ GameFrame =>
          LET c == BeforeCollisions(Top, inp')
              hit == ev'.pipe_hit \/ ev'.ground_hit
          IN /\ ev'.pipe_hit =
                   (/\ ~c.game_over
                    /\ c.bird.alive
                    /\ \E i \in DOMAIN c.pipes :
                          PipeGroup_collides_with(c.pipes[i],
                                                  Bird_get_collision_rect(c.bird)))
             /\ ev'.ground_hit =
                   (/\ ~c.game_over
                    /\ Bird_collides_with(c.bird, Ground_get_collision_rect))
             /\ hit =>
                   /\ ev'.spawn = "none"
                   /\ Top'.pipe_generator.counter = c.pipe_generator.counter
                   /\ Len(Top'.pipes) = Len(c.pipes)
                   /\ \A i \in DOMAIN c.pipes :
                         /\ Top'.pipes[i].alive = c.pipes[i].alive
                         /\ Top'.pipes[i].x = c.pipes[i].x
             /\ ev'.spawn # "none" =>
                   /\ ~hit
                   /\ \E i \in DOMAIN Top'.pipes :
                         /\ Top'.pipes[i].x = ScreenW * XU
                         /\ Top'.pipes[i].alive
                         /\ Top'.pipes[i].enabled
                         /\ i \in DOMAIN c.pipes => ~c.pipes[i].alive
             /\ ev.spawn # "none" =>
                   \A i \in DOMAIN Top.pipes :
                      Top.pipes[i].x = ScreenW * XU =>
                         Top'.pipes[i].x = (ScreenW - 3) * XU ]_vars

\* after a frame in which the spawn was due and the bird hit a pair: no
\* pair was spawned and the generator's counter stands where it stood
C31_Witness ==
    /\ GameOnTop
    /\ pc = "draw"
    /\ ev.pipe_hit
    /\ ev.spawn = "none"
    /\ ~Top.pipe_generator.enabled
    /\ Top.pipe_generator.counter = SPAWN_FRAMES - 1
    /\ \E i \in DOMAIN Top.pipes : ~Top.pipes[i].alive

\* C32: as long as frames are processed (the Game scene is not popped),
\* from every state in which the bird is dead and the game is not over the
\* game is eventually over, whatever the input, and every frame until then
\* moves the bird down; and from every state of active play the game is
\* eventually over unless the player presses again.
C32_EventuallyOver ==
    /\ (GameOnTop /\ ~Top.bird.alive /\ ~Top.game_over)
          ~> (scenes = <<>> \/ (GameOnTop /\ Top.game_over))
    /\ \A k \in 0..MaxPresses :
          (InPlay /\ presses = k)
             ~> (scenes = <<>> \/ (GameOnTop /\ Top.game_over) \/ presses > k)
    /\ [][ (GameFrame /\ ~Top.bird.alive /\ ~Top.game_over) =>
              /\ ~Top'.bird.alive
              /\ Top'.bird.y > Top.bird.y ]_vars

\* the game over by the ground, with the button down, below a pair that
\* stands in the bird's column: the bird was killed by the pair and fell
C32_Witness ==
    /\ GameOnTop
    /\ pc = "draw"
    /\ Top.game_over
    /\ ev.ground_hit
    /\ ~ev.pipe_hit
    /\ inp.down
    /\ \E i \in DOMAIN Top.pipes :
          /\ Top.pipes[i].alive
          /\ Top.pipes[i].x < Top.bird.x
          /\ Top.pipes[i].x + PIPE_WIDTH * XU > Top.bird.x

\* C33: a frame that begins with the game over and is not a fresh press
\* on the restart button (and does not pop the scene by Escape) leaves the
\* bird, the pairs, the score, the highscore, both scroll layers with their
\* flags, the generator and game_over as they were.
C33_StableWhenOver ==
    [][ (/\ GameFrame
         /\ Top.game_over
         /\ ~(inp'.down /\ ~Top.is_mouse_down /\ Button_contains(inp'.point))) =>
           /\ Top'.bird = Top.bird
           /\ Top'.pipes = Top.pipes
           /\ Top'.score = Top.score
           /\ Top'.highscore = Top.highscore
           /\ Top'.background = Top.background
           /\ Top'.ground = Top.ground
           /\ Top'.pipe_generator = Top.pipe_generator
           /\ Top'.game_over ]_vars

\* after a frame that began with the game over, with the button down away
\* from the restart button and a pair in the collection
C33_Witness ==
    /\ GameOnTop
    /\ pc = "draw"
    /\ Top.game_over
    /\ ~ev.ground_hit
    /\ inp.down
    /\ ~Button_contains(inp.point)
    /\ Top.is_mouse_down
    /\ Len(Top.pipes) >= 1

\* C34 as stated: between frames a dead bird implies that the generator is
\* stopped, that background and ground do not scroll and that no pair is
\* enabled; and a frame that begins with the bird dead enables none of
\* them, unless it is the frame of a start click.
C34_DeadDisables ==
    /\ [](( GameOnTop /\ ~Top.bird.alive) =>
             /\ ~Top.pipe_generator.enabled
             /\ ~Top.background.scroll
             /\ ~Top.ground.scroll
             /\ \A i \in DOMAIN Top.pipes : ~Top.pipes[i].enabled)
    /\ [][ (GameFrame /\ ~Top.bird.alive /\ ~ev'.started) =>
              /\ ~Top'.pipe_generator.enabled
              /\ ~Top'.background.scroll
              /\ ~Top'.ground.scroll
              /\ \A i \in DOMAIN Top'.pipes : ~Top'.pipes[i].enabled ]_vars

\* C34, amended: between frames a dead bird implies that the generator is
\* stopped, that background and ground do not scroll and that no pair is
\* enabled.  A frame that begins with the bird dead enables no pair and
\* not the generator; it turns the scrolling of background and ground on
\* exactly when it does the full reset, which also revives the bird and
\* empties the collection.  The generator goes from stopped to started in
\* the frame of a start click only.
C34_DeadDisablesUntilReset ==
    /\ [](( GameOnTop /\ ~Top.bird.alive) =>
             /\ ~Top.pipe_generator.enabled
             /\ ~Top.background.scroll
             /\ ~Top.ground.scroll
             /\ \A i \in DOMAIN Top.pipes : ~Top.pipes[i].enabled)
    /\ [][ (GameFrame /\ ~Top.bird.alive) =>
              /\ ~ev'.started
              /\ ~Top'.pipe_generator.enabled
              /\ \A i \in DOMAIN Top'.pipes : ~Top'.pipes[i].enabled
              /\ Top'.background.scroll = ev'.did_reset
              /\ Top'.ground.scroll = ev'.did_reset
              /\ Top'.bird.alive = ev'.did_reset
              /\ ev'.did_reset => Top'.pipes = <<>> ]_vars
    /\ [][ (GameFrame /\ ~Top.pipe_generator.enabled
                /\ Top'.pipe_generator.enabled) => ev'.started ]_vars

\* after the frame of a full reset: the bird alive on the instructions
\* screen, both layers scrolling again, the generator still stopped
C34_Witness ==
    /\ GameOnTop
    /\ pc = "draw"
    /\ ev.did_reset
    /\ Top.instructions_visible
    /\ Top.bird.alive
    /\ Top.background.scroll
    /\ Top.ground.scroll
    /\ ~Top.pipe_generator.enabled

\* C35: a frame that begins with the bird dead scores no pair and leaves
\* the score as it was, unless it does the full reset, which sets the score
\* to 0.
C35_NoScoreWhenDead ==
    [][ (GameFrame /\ ~Top.bird.alive) =>
          /\ ev'.scored = 0
          /\ Top'.score = IF ev'.did_reset THEN 0 ELSE Top.score ]_vars

\* C36: between frames, while the instructions are visible, the collection
\* is empty, the score is 0, the game is not over, the bird is alive with
\* its gravity off, and the generator is stopped.
C36_PreGame ==
    (GameOnTop /\ Top.instructions_visible) =>
        /\ Top.pipes = <<>>
        /\ Top.score = 0
        /\ ~Top.game_over
        /\ Top.bird.alive
        /\ ~Top.bird.allow_gravity
        /\ ~Top.pipe_generator.enabled

\* the instructions screen of a restarted game, the button released: the
\* generator has counted in the game before, which ended with a pair
\* scored
C36_Witness ==
    /\ GameOnTop
    /\ pc = "pre_update"
    /\ Top.instructions_visible
    /\ ~inp.down
    /\ ~Top.is_mouse_down
    /\ Top.pipe_generator.counter > 0
    /\ Top.scoreboard.score >= 1

\* C37 as stated: in every session the frame of the start click is the
\* first of 80 frames counted to the first spawn: it leaves the generator's
\* counter at 1, every later frame of play adds 1, and the frame that
\* spawns is the one that finds the counter at 79.
C37_FirstSpawnAt80 ==
    [][ GameFrame =>
          /\ ev'.started => Top'.pipe_generator.counter = 1
          /\ (/\ Top.pipe_generator.enabled
              /\ ~ev'.pipe_hit
              /\ ~ev'.ground_hit) =>
                Top'.pipe_generator.counter = (Top.pipe_generator.counter + 1) % 80
          /\ ev'.spawn # "none" => Top.pipe_generator.counter = 79 ]_vars

\* C37, amended: the generator of a newly constructed Game scene has counted
\* nothing, so the first session's first spawn is in the 80th frame
\* counting from the frame of the start click.  The counter is kept when
\* the bird dies and through the full reset, and the frame of a start click
\* counts on from it: every frame in which the generator is enabled and no
\* collision is detected adds 1, the frame that finds the counter at 79
\* spawns and sets it to 0, and no other frame changes it.  A session that
\* follows a restart has its first spawn in frame 80 - c from the start
\* click, c being the count at which the session before was stopped.
C37_FirstSpawnByCounter ==
    /\ [][ (pc = "pre_update" /\ scenes # <<>> /\ Top.kind = "Title"
               /\ scenes' # <<>> /\ Top'.kind = "Game") =>
              Top'.pipe_generator = [counter |-> 0, enabled |-> FALSE] ]_vars
    /\ [][ GameFrame =>
              LET counts == /\ Top.pipe_generator.enabled \/ ev'.started
                            /\ ~ev'.pipe_hit
                            /\ ~ev'.ground_hit
              IN /\ ev'.started => Top'.pipe_generator.enabled
                 /\ Top'.pipe_generator.counter =
                       IF counts THEN (Top.pipe_generator.counter + 1) % 80
                       ELSE Top.pipe_generator.counter
                 /\ (ev'.spawn # "none") =
                       (counts /\ Top.pipe_generator.counter = 79) ]_vars

\* after the start click of a session that follows a restart: the counter
\* is further than the one frame of this session
C37_Witness ==
    /\ GameOnTop
    /\ pc = "draw"
    /\ ev.started
    /\ Top.pipe_generator.enabled
    /\ Top.pipe_generator.counter > 1
    /\ Top.pipes = <<>>

\* C38: in a window 800 wide the collection never holds more than 4
\* pairs, and a pair that the pool resets had scored before the frame that
\* resets it.
C38_AtMostFourPairs ==
    /\ [](Len(Top.pipes) <= 4)
    /\ [][ pc = "wide" =>
              /\ ev'.spawn = "reused" =>
                    \E i \in DOMAIN Top.pipes :
                       /\ Top'.pipes[i].x = WideScreenW * XU
                       /\ ~Top'.pipes[i].has_scored
                       /\ Top.pipes[i].has_scored
                       /\ Top.pipes[i].x < 0
              /\ ev'.spawn = "new" => Len(Top.pipes) < 4 ]_vars

\* four pairs, all alive, one of them just reset by the pool
C38_Witness ==
    /\ pc = "wide"
    /\ ev.spawn = "reused"
    /\ Len(Top.pipes) = 4
    /\ \A i \in DOMAIN Top.pipes : Top.pipes[i].alive

\* C39: under the main loop the stack never holds more than one scene;
\* pre_update leaves the stack as it is when the Game scene is on top; and
\* a stack without a Title scene never gets one, so once the Game scene has
\* taken the Title scene's place the Title scene is never on the stack
\* again.
C39_OneScene ==
    /\ [](Len(scenes) <= 1)
    /\ [][ (pc = "pre_update" /\ GameOnTop) => scenes' = scenes ]_vars
    /\ [][ (\A i \in DOMAIN scenes : scenes[i].kind # "Title") =>
              (\A j \in DOMAIN scenes' : scenes'[j].kind # "Title") ]_vars

\* the process ended from the Game scene, by Escape in the frame of a
\* restart click: the stack is empty
C39_Witness ==
    /\ status = "exited"
    /\ scenes = <<>>
    /\ ret = "Pop"
    /\ ev.did_reset

====
